---- MODULE Spec2Model ----
(***************************************************************************)
(* A model of the incremental synchronisation engine of bfx-report:        *)
(* DataInserter (src/workers/loc.api/sync/data.inserter/index.js).         *)
(*                                                                         *)
(* The module holds several state machines over one set of variables, one  *)
(* per layer of the engine; each specification runs one layer and parks    *)
(* the variables of the others:                                            *)
(*   SpecRetry  one logical request, DataInserter._getDataFromApi          *)
(*   SpecPass   one paginated fetch pass, _insertApiDataArrObjTypeToDb,     *)
(*              against a gateway that may answer anything well-typed       *)
(*   SpecSync   full runs (insertNewDataToDbMultiUser) of one account over  *)
(*              one schema against a remote data set served newest first,   *)
(*              with interruption and re-invocation                         *)
(*   SpecRun    one full run over several accounts, schemas and hooks       *)
(*   SpecRecon  runs over one updatable public schema, whose table is       *)
(*              reconciled with the remote listing                          *)
(*   SpecProgress  setAsyncProgressHandler and awaited setProgress calls    *)
(*   SpecPassFair  SpecPass when every gateway call returns or throws       *)
(*   SpecRetryFair  SpecRetry when every gateway call returns or throws     *)
(*   SpecPassWindow  SpecPass against a gateway whose next-page cursor is  *)
(*              never after the requested end                              *)
(*   SpecAccounts  the account passes of a run over one or two accounts     *)
(*              against a remote data set, for any newest stored date      *)
(*   SpecPublic  insertNewPublicDataToDb over one configurable public      *)
(*              schema with one or two configured symbols                  *)
(*   SpecPublicTwice  the same, called twice on one orchestrator           *)
(*   SpecConcurrent  insertNewDataToDb called for two credentials on one   *)
(*              orchestrator, the calls in progress at the same time       *)
(***************************************************************************)
EXTENDS Integers, Sequences, FiniteSets, TLC

(***************************************************************************)
(* Retry layer: DataInserter._getDataFromApi                               *)
(***************************************************************************)

\* Program constants of _getDataFromApi.
ms == 80000
NonceDelay == 1000
MaxRateLimitRetries == 2
MaxNonceSmallRetries == 20

\* What one call of apiMiddleware.request can do: return a response, or throw
\* an error that isRateLimitError accepts, one that isNonceSmallError accepts,
\* or any other error.
GatewayOutcomes == {"ok", "rate", "nonce", "other"}

VARIABLES
  rqPc,                  \* position inside _getDataFromApi
  hasMethod,             \* apiMiddleware.hasMethod(methodApi)
  countRateLimitError,   \* local of _getDataFromApi
  countNonceSmallError,  \* local of _getDataFromApi
  rqLog,                 \* outcomes of the gateway attempts made so far
  delayLog,              \* the delays awaited so far, in ms
  delayMs,               \* the delay being awaited (0: none)
  rqErr                  \* the error thrown to the caller ("none": none)

rqVars == <<rqPc, hasMethod, countRateLimitError, countNonceSmallError,
            rqLog, delayLog, delayMs, rqErr>>

(***************************************************************************)
(* Fetch-pass layer: DataInserter._insertApiDataArrObjTypeToDb             *)
(*                                                                         *)
(* A record is modelled by the value of its date field (schema             *)
(* dateFieldName): a natural number, or NoDate when the field is missing   *)
(* or not an integer. Null is JavaScript's null/undefined/false. Both are   *)
(* encoded as negative numbers, apart from every date and cursor, so that  *)
(* they compare with numbers; NotArray is a response body that is no array. *)
(***************************************************************************)
Null == -1
NoDate == -2
NotArray == <<Null>>

\* Bounds of the model.
MaxDate == 3      \* dates range over 0..MaxDate
MaxPage == 2      \* the longest page the gateway returns
MaxLimit == 3     \* the largest record cap (args.params.limit) tried

Dates == 0..MaxDate
\* `Date.now()`, the default `end` of _getMethodArgMap: later than every record.
Now == MaxDate + 1

VARIABLES
  psPc,                 \* position inside _insertApiDataArrObjTypeToDb
  psKey,                \* the table written: <<collName, auth or Null>>
  psStart,              \* _args.params.start
  psArgsEnd,            \* _args.params.end
  psLimit,              \* _args.params.limit
  psEnd,                \* currIterationArgs.params.end
  count,                \* local `count`
  serialRequestsCount,  \* local `serialRequestsCount`
  psReq,                \* the window of the pass's latest gateway request
  psResp,               \* the latest response {res, nextPage} received
  psWrite,              \* the rows handed to the DAO in the latest iteration
  psPages               \* the non-empty pages received with a next-page
                        \* cursor, in the order of their requests

psVars == <<psPc, psKey, psStart, psArgsEnd, psLimit, psEnd, count,
            serialRequestsCount, psReq, psResp, psWrite, psPages>>

(***************************************************************************)
(* The collaborators: the DAO's storage and the remote access gateway.     *)
(***************************************************************************)
VARIABLES
  db,           \* storage: table key -> rows in insertion order
  insertCount,  \* calls of dao.insertElemsToDb so far
  reqCount,     \* logical gateway requests (_getDataFromApi calls) so far
  gwMode,       \* how the gateway answers: "any", "tiny" or "remote"
  remote,       \* for gwMode "remote": table key -> the dates the remote holds
  conf,         \* the rows of publicCollsConf, grouped by symbol: <<symbol, start>>
  fetchLimit    \* the `limit` handed to _getMethodArgMap for a fetch pass

stVars == <<db, insertCount, reqCount, gwMode, remote, conf, fetchLimit>>
gwVars == <<gwMode, remote, conf, fetchLimit>>

(***************************************************************************)
(* Orchestration layer: insertNewDataToDbMultiUser and the sub-passes      *)
(***************************************************************************)
VARIABLES
  pc,           \* position of the run
  runNo,        \* invocations of insertNewDataToDbMultiUser so far
  auth,         \* this._auth: NoAuth, NotMap or the values of the Map, in order
  authIdx,      \* entries of this._auth the for-of loop has taken
  muCount,      \* `count` of insertNewDataToDbMultiUser
  muProgress,   \* `progress` of insertNewDataToDbMultiUser (Null: undefined, NaN)
  schemas,      \* this._methodCollMap: the schema objects, in Map order
  curAuth,      \* `auth` of insertNewDataToDb
  chkIdx,       \* schemas the detector loop has taken
  symIdx,       \* rows of publicCollsConf the detector loop has taken
  mcm,          \* `methodCollMap` of a sub-pass after filterMethodCollMap:
                \* indices into schemas
  mcmIdx,       \* entries of mcm the loop of the sub-pass has taken
  subCount,     \* `count` of the sub-pass
  subProgress,  \* `progress` of the sub-pass
  prevProgress, \* argument of insertNewPublicDataToDb
  pubStep,      \* position inside one iteration of the public loop
  startIdx,     \* entries of schema.start the public insert loop has taken
  progressLog,  \* the values handed to setProgress, in order
  passLog,      \* those published by the sub-pass in progress
  hookState,    \* per registered hook: "idle", "pending", "resolved", "rejected"
  hookCalls,    \* per registered hook: how often it was invoked
  hookArgs,     \* per registered hook: the argument of its last invocation
  runStartRows, \* the rows storage held when the run in progress began
  prevOutcome,  \* how the run before ended ("none": there was none)
  aborted       \* the latest fetch pass abandoned after it had inserted rows

orVars == <<pc, runNo, auth, authIdx, muCount, muProgress, schemas, curAuth,
            chkIdx, symIdx, mcm, mcmIdx, subCount, subProgress, prevProgress,
            pubStep, startIdx, progressLog, passLog, hookState, hookCalls,
            hookArgs, runStartRows, prevOutcome, aborted>>
ghostVars == <<runStartRows, prevOutcome, aborted>>

(***************************************************************************)
(* The progress publisher: setAsyncProgressHandler and setProgress         *)
(***************************************************************************)
VARIABLES
  spPc,                  \* "idle", "handler" (the observer is awaited),
                         \* "thrown" (setProgress has rejected), "parked"
  asyncProgressHandler,  \* this._asyncProgressHandler: an observer or none
  regLog,                \* the observers registered, in order
  pubLog,                \* per setProgress call: the value, the observer
                         \* invoked, its outcome, whether the event was emitted
  emitLog,               \* the values of the 'progress' events, in order
  spErr                  \* the error thrown by the latest failed call

spVars == <<spPc, asyncProgressHandler, regLog, pubLog, emitLog, spErr>>

(***************************************************************************)
(* Sub-passes in progress at the same time: insertNewDataToDb called for   *)
(* several credentials on one orchestrator, each call with its own locals  *)
(***************************************************************************)
VARIABLES
  coPc,       \* per call: "idle", "check", "pass", "returned"
  coChkIdx,   \* per call: schemas its detector loop has taken
  coMcm,      \* per call: its `methodCollMap` after filterMethodCollMap
  coMcmIdx,   \* per call: entries of coMcm its loop has taken
  coOwn,      \* per call: the schemas as its own detector left them
  coFetched   \* per call: the fetch passes it began: schema, start, table

coVars == <<coPc, coChkIdx, coMcm, coMcmIdx, coOwn, coFetched>>

vars == <<spVars, coVars, rqVars, psVars, stVars, orVars>>

\* What the actions of each layer leave alone.
allButRq == <<spVars, coVars, psVars, stVars, orVars>>
allButSp == <<coVars, rqVars, psVars, stVars, orVars>>

\* `countRateLimitError > 2`
RateLimitGivesUp_off(c) == c >= MaxRateLimitRetries
RateLimitGivesUp(c) == c > MaxRateLimitRetries

\* A loop that never gives up on nonce-too-small errors.
NonceSmallGivesUp_never(c) == FALSE
\* `countNonceSmallError > 20`
NonceSmallGivesUp(c) == c > MaxNonceSmallRetries

\* State at the entry of _getDataFromApi.
RqInit ==
  /\ rqPc = "call"
  /\ hasMethod \in BOOLEAN
  /\ countRateLimitError = 0
  /\ countNonceSmallError = 0
  /\ rqLog = <<>>
  /\ delayLog = <<>>
  /\ delayMs = 0
  /\ rqErr = "none"

\* `if (!this.apiMiddleware.hasMethod(methodApi)) throw new FindMethodError()`
\* and the initialisation of the counters.
RqEnter ==
  /\ rqPc = "call"
  /\ IF hasMethod
       THEN /\ rqPc' = "request"
            /\ rqErr' = rqErr
       ELSE /\ rqPc' = "thrown"
            /\ rqErr' = "FindMethodError"
  /\ countRateLimitError' = 0
  /\ countNonceSmallError' = 0
  /\ UNCHANGED <<hasMethod, rqLog, delayLog, delayMs>>
  /\ UNCHANGED allButRq

\* apiMiddleware.request resolves: `break`, `return res`.
RqSucceed ==
  /\ rqPc = "request"
  /\ rqLog' = Append(rqLog, "ok")
  /\ rqPc' = "returned"
  /\ UNCHANGED <<hasMethod, countRateLimitError, countNonceSmallError,
                 delayLog, delayMs, rqErr>>
  /\ UNCHANGED allButRq

\* apiMiddleware.request rejects with a rate-limit error.
RqRateLimited ==
  /\ rqPc = "request"
  /\ rqLog' = Append(rqLog, "rate")
  /\ countRateLimitError' = countRateLimitError + 1
  /\ IF RateLimitGivesUp(countRateLimitError + 1)
       THEN /\ rqPc' = "thrown"
            /\ rqErr' = "rate"
            /\ delayMs' = delayMs
       ELSE /\ rqPc' = "delay"
            /\ rqErr' = rqErr
            /\ delayMs' = ms
  /\ UNCHANGED <<hasMethod, countNonceSmallError, delayLog>>
  /\ UNCHANGED allButRq

\* apiMiddleware.request rejects with a nonce-too-small error.
RqNonceSmall ==
  /\ rqPc = "request"
  /\ rqLog' = Append(rqLog, "nonce")
  /\ countNonceSmallError' = countNonceSmallError + 1
  /\ IF NonceSmallGivesUp(countNonceSmallError + 1)
       THEN /\ rqPc' = "thrown"
            /\ rqErr' = "nonce"
            /\ delayMs' = delayMs
       ELSE /\ rqPc' = "delay"
            /\ rqErr' = rqErr
            /\ delayMs' = NonceDelay
  /\ UNCHANGED <<hasMethod, countRateLimitError, delayLog>>
  /\ UNCHANGED allButRq

\* A loop that also waits and tries again after any other error.
RqOtherError_retried ==
  /\ rqPc = "request"
  /\ rqLog' = Append(rqLog, "other")
  /\ rqPc' = "delay"
  /\ delayMs' = NonceDelay
  /\ UNCHANGED <<hasMethod, countRateLimitError, countNonceSmallError,
                 delayLog, rqErr>>
  /\ UNCHANGED allButRq

\* apiMiddleware.request rejects with any other error: `else throw err`.
RqOtherError ==
  /\ rqPc = "request"
  /\ rqLog' = Append(rqLog, "other")
  /\ rqPc' = "thrown"
  /\ rqErr' = "other"
  /\ UNCHANGED <<hasMethod, countRateLimitError, countNonceSmallError,
                 delayLog, delayMs>>
  /\ UNCHANGED allButRq

\* `await delay(...)` resolves: `continue`.
RqDelayDone ==
  /\ rqPc = "delay"
  /\ delayLog' = Append(delayLog, delayMs)
  /\ delayMs' = 0
  /\ rqPc' = "request"
  /\ UNCHANGED <<hasMethod, countRateLimitError, countNonceSmallError,
                 rqLog, rqErr>>
  /\ UNCHANGED allButRq

\* The retry layer at rest, in the specifications of the other layers.
RqParked ==
  /\ rqPc = "parked"
  /\ hasMethod = TRUE
  /\ countRateLimitError = 0
  /\ countNonceSmallError = 0
  /\ rqLog = <<>>
  /\ delayLog = <<>>
  /\ delayMs = 0
  /\ rqErr = "none"

(***************************************************************************)
(* Fetch-pass layer                                                        *)
(***************************************************************************)

RECURSIVE SeqsUpTo(_, _)
\* The sequences over S of length at most n.
SeqsUpTo(S, n) ==
  IF n = 0 THEN {<<>>}
  ELSE LET shorter == SeqsUpTo(S, n - 1)
       IN  shorter \cup {Append(q, x) : q \in {r \in shorter : Len(r) = n - 1}, x \in S}

\* Pages are ordered from newest to oldest.
NewestFirst(page) ==
  \A i \in 1..(Len(page) - 1) : page[i] >= page[i + 1]

SortedPages == {p \in SeqsUpTo(Dates, MaxPage) : NewestFirst(p)}

\* A page of the gateway: records newest first; the oldest record may be
\* malformed (no integer date field).
Pages ==
  SortedPages \cup
  {Append(p, NoDate) : p \in {q \in SortedPages : Len(q) < MaxPage}}

\* What _getDataFromApi can resolve to in a pass: {res, nextPage}, where res
\* is a page or not an array, and nextPage an integer or not.
AnyResponses ==
  [res : Pages \cup {NotArray}, nextPage : Dates \cup {Null}]

\* A response that carries a non-empty page and a next-page cursor.
HasPageAndCursor(resp) ==
  resp.res # NotArray /\ resp.res # <<>> /\ resp.nextPage # Null

\* JavaScript truthiness of an integer-or-Null value.
Truthy(v) == v # Null /\ v # NoDate /\ v # 0
\* `Number.isInteger`
IsInteger(v) == v # Null /\ v # NoDate

\* `res.filter((item) => _args.params.start <= item[dateFieldName])`
RECURSIVE FilterFromStart(_, _)
FilterFromStart(res, start) ==
  IF res = <<>> THEN <<>>
  ELSE LET rest == FilterFromStart(Tail(res), start)
       IN  IF IsInteger(Head(res)) /\ start <= Head(res)
             THEN <<Head(res)>> \o rest
             ELSE rest

\* `res.splice(n)` for n >= 0: the first n elements stay.
Splice_oldest(res, n) ==
  SubSeq(res, IF n < Len(res) THEN Len(res) - n + 1 ELSE 1, Len(res))
Splice(res, n) == SubSeq(res, 1, IF n < Len(res) THEN n ELSE Len(res))

\* A retry of every empty page that comes with a cursor.
IsEmptyWithCursor_unbounded(resp, serial) ==
  /\ resp.res # NotArray
  /\ resp.res = <<>>
  /\ Truthy(resp.nextPage)
  /\ IsInteger(resp.nextPage)

\* A retry of any empty page, with or without a cursor.
IsEmptyWithCursor_anyEmpty(resp, serial) ==
  /\ resp.res # NotArray
  /\ resp.res = <<>>
  /\ serial < 1

\* The empty page that comes with a cursor, retried once (source lines 557-568).
IsEmptyWithCursor(resp, serial) ==
  /\ resp.res # NotArray
  /\ resp.res = <<>>
  /\ Truthy(resp.nextPage)
  /\ IsInteger(resp.nextPage)
  /\ serial < 1

\* `!res || !Array.isArray(res) || res.length === 0`
IsNoData(resp) == resp.res = NotArray \/ resp.res = <<>>

\* The check of the page's last item (source lines 578-585).
IsMalformedLast(res) ==
  LET lastItem == res[Len(res)]
  IN  ~Truthy(lastItem) \/ ~IsInteger(lastItem)

\* `_args.params.start >= currTime`
ReachedStart_strict(start, currTime) == start > currTime
ReachedStart(start, currTime) == start >= currTime

\* The page after the clip at start (source lines 590-593).
Clipped(res, start) ==
  IF ReachedStart(start, res[Len(res)]) THEN FilterFromStart(res, start) ELSE res

\* `_args.params.limit < (count + res.length)`
OverLimit_perPage(limit, cnt, res) == limit < Len(res)
OverLimit(limit, cnt, res) == limit < cnt + Len(res)

\* The page after the truncation at the cap (source lines 595-598).
Truncated(res, limit, cnt) ==
  IF OverLimit(limit, cnt, res) THEN Splice(res, limit - cnt) ELSE res

\* The rows of one page that are handed to dao.insertElemsToDb.
RowsToInsert(res, start, limit, cnt) ==
  Truncated(Clipped(res, start), limit, cnt)

\* A loop that goes on without a next-page cursor, from the date before the
\* page's oldest record.
StopsAfter_withoutCursor(res, start, limit, cnt, nextPage) ==
  LET clipped == Clipped(res, start)
      rows == Truncated(clipped, limit, cnt)
      isAllData == ReachedStart(start, res[Len(res)]) \/ OverLimit(limit, cnt, clipped)
      needElems == limit - (cnt + Len(rows))
  IN  isAllData \/ needElems <= 0

\* The pass ends after this page (source lines 609-616).
StopsAfter(res, start, limit, cnt, nextPage) ==
  LET clipped == Clipped(res, start)
      rows == Truncated(clipped, limit, cnt)
      isAllData == ReachedStart(start, res[Len(res)]) \/ OverLimit(limit, cnt, clipped)
      needElems == limit - (cnt + Len(rows))
  IN  isAllData \/ needElems <= 0 \/ ~Truthy(nextPage) \/ ~IsInteger(nextPage)

\* Before the first request, response and write of a pass.
NoRequest == [start |-> Null, end |-> Null, limit |-> Null]
NoResponse == [res |-> NotArray, nextPage |-> Null]
NoWrite == <<Null>>
NoTable == <<0, 0>>

(***************************************************************************)
(* The gateway                                                             *)
(***************************************************************************)
Max(S) == CHOOSE m \in S : \A x \in S : x <= m
Min(S) == CHOOSE m \in S : \A x \in S : m <= x

RECURSIVE NewestOf(_, _)
\* The k newest dates of S, newest first.
NewestOf(S, k) ==
  IF k = 0 \/ S = {} THEN <<>>
  ELSE <<Max(S)>> \o NewestOf(S \ {Max(S)}, k - 1)

Range(q) == {q[i] : i \in 1..Len(q)}

\* The cursors a page can come with: none when nothing older is left, else a
\* date from the newest record left up to just before the page's oldest.
Cursors(page, rest) ==
  IF rest = {} THEN {Null} ELSE Max(rest)..(page[Len(page)] - 1)

\* The pages a remote that holds `held` serves for a window ending at `end`:
\* its newest records at or before `end`, newest first, at most MaxPage.
PagesOf(held, end) ==
  LET avail == {d \in held : d <= end}
  IN  IF avail = {} THEN {[res |-> <<>>, nextPage |-> Null]}
      ELSE UNION {
             LET page == NewestOf(avail, k)
             IN  {[res |-> page, nextPage |-> c] :
                    c \in Cursors(page, avail \ Range(page))}
             : k \in 1..MaxPage}

\* The remote may or may not leave out the records before `start`.
RemoteResponses(table, start, end) ==
  PagesOf(remote[table], end) \cup
  PagesOf({d \in remote[table] : d >= start}, end)

\* A small gateway for the runs over several accounts and schemas.
TinyResponses == [res : {NotArray, <<>>, <<1>>}, nextPage : {Null, 1}]

\* A gateway that pages backward inside the window it is asked for: any
\* page, with no next-page cursor or one that is not after `end`.
WindowResponses(end) ==
  {resp \in AnyResponses : resp.nextPage = Null \/ resp.nextPage <= end}

\* What _getDataFromApi can resolve to for the window of a fetch pass.
PassResponses(table, start, end) ==
  CASE gwMode = "remote" -> RemoteResponses(table, start, end)
    [] gwMode = "tiny"   -> TinyResponses
    [] gwMode = "window" -> WindowResponses(end)
    [] OTHER             -> AnyResponses

\* What a probe (isCheckCall, limit 1) can resolve to: the date of the
\* newest remote record, or Null for an empty response.
ProbeResponses(table) ==
  CASE gwMode = "remote" ->
         IF remote[table] = {} THEN {Null} ELSE {Max(remote[table])}
    [] OTHER -> {Null, 1, 2}

\* dao.getLastElemFromDb / dao.getElemInCollBy with the schema's sort: the
\* date of the newest row of the table, Null when it has none.
LastElemFromDb(table) ==
  IF db[table] = <<>> THEN Null ELSE Max(Range(db[table]))

\* The same with invertSort(schema.sort): the date of the oldest row.
FirstElemFromDb(table) ==
  IF db[table] = <<>> THEN Null ELSE Min(Range(db[table]))

\* compareElemsDbAndApi(dateFieldName, elDb, elApi): the date of elDb when it
\* is before that of elApi, false otherwise.
compareElemsDbAndApi(dbDate, apiDate) ==
  IF dbDate < apiDate THEN dbDate ELSE Null

(***************************************************************************)
(* Schemas                                                                 *)
(***************************************************************************)
TInsertable == "insertable:array:objects"
TPubInsertable == "public:insertable:array:objects"
TPubUpdArr == "public:updatable:array"
TPubUpdArrObj == "public:updatable:array:objects"

\* A schema object as the orchestrator is constructed with it. start is a
\* date for an account-scoped schema and a list of
\* [symbol, {baseStartFrom, baseStartTo, currStart}] for publicTrades and
\* tickersHistory (kept in starts).
NewSchema(type) ==
  [type |-> type,
   hasNewData |-> type \in {TPubUpdArr, TPubUpdArrObj},
   start |-> Null,
   starts |-> <<>>]

\* _isInsertableArrObjTypeOfColl(coll, isPublic)
IsInsertable(schema, isPublic) ==
  schema.type = (IF isPublic THEN TPubInsertable ELSE TInsertable)

IsPublicType(schema) ==
  schema.type \in {TPubInsertable, TPubUpdArr, TPubUpdArrObj}

RECURSIVE KeptFrom(_, _, _)
\* The indices i of map, from `from` on, in order, of the schemas with new
\* data of the asked visibility.
KeptFrom(map, isPublic, from) ==
  IF from > Len(map) THEN <<>>
  ELSE (IF map[from].hasNewData /\ (IsPublicType(map[from]) = isPublic)
          THEN <<from>> ELSE <<>>) \o KeptFrom(map, isPublic, from + 1)

\* filterMethodCollMap(methodCollMap, isPublic)
filterMethodCollMap(map, isPublic) == KeptFrom(map, isPublic, 1)

\* The table of a schema's rows for an owner: an account, a symbol, or 0.
Table(schemaIdx, owner) == <<schemaIdx, owner>>

(***************************************************************************)
(* Progress                                                                *)
(***************************************************************************)
\* MESS_ERR_UNAUTH, the only progress value that is not a number.
Unauthorized == -3

\* Math.round(num / den) for num >= 0, den > 0.
Round(num, den) == (2 * num + den) \div (2 * den)

\* `Math.round((count / size) * 100 * userProgress)`, userProgress = up / n
AccountProgress_remaining(cnt, size, up, n) ==
  Round((size - cnt) * 100 * up, size * n)
AccountProgress(cnt, size, up, n) == Round(cnt * 100 * up, size * n)

\* `Math.round(prevProgress + (count / size) * 100 * ((100 - prevProgress) / 100))`
\* NaN (Null) when prevProgress is undefined.
PublicProgress(prev, cnt, size) ==
  IF prev = Null THEN Null ELSE prev + Round(cnt * (100 - prev), size)

\* `progress < 100`
Below100_incl(progress) == progress # Null /\ progress <= 100
Below100(progress) == progress # Null /\ progress < 100

\* setProgress(progress) when Below100, nothing otherwise
PublishBelow100(progress) ==
  IF Below100(progress)
    THEN /\ progressLog' = Append(progressLog, progress)
         /\ passLog' = Append(passLog, progress)
    ELSE UNCHANGED <<progressLog, passLog>>

(***************************************************************************)
(* Fetch-pass layer: the actions                                           *)
(***************************************************************************)
\* Entry of _insertApiDataArrObjTypeToDb(args, methodApi, schema, isPublic)
\* for an insertable schema: the locals before the loop.
PsBegin(key, start, end, limit) ==
  /\ psPc' = "fetch"
  /\ psKey' = key
  /\ psStart' = start
  /\ psLimit' = limit
  /\ psArgsEnd' = end
  /\ psEnd' = end
  /\ count' = 0
  /\ serialRequestsCount' = 0
  /\ psReq' = NoRequest
  /\ psResp' = NoResponse
  /\ psWrite' = NoWrite
  /\ psPages' = <<>>

\* One iteration of the loop, from the call of _getDataFromApi with the
\* current window to the `break` or `continue`, for a call that resolves to
\* resp. The insert of the page is one call of the DAO.
PsIterateWith(resp) ==
  /\ psPc = "fetch"
  /\ psReq' = [start |-> psStart, end |-> psEnd, limit |-> psLimit]
  /\ reqCount' = reqCount + 1
  /\ psResp' = resp
  /\ psEnd' = resp.nextPage
  /\ psPages' = IF HasPageAndCursor(resp) THEN Append(psPages, resp.res)
                                          ELSE psPages
  /\ UNCHANGED <<psKey, psStart, psArgsEnd, psLimit>>
  /\ IF IsEmptyWithCursor(resp, serialRequestsCount)
       THEN /\ serialRequestsCount' = serialRequestsCount + 1
            /\ psPc' = "fetch"
            /\ psWrite' = NoWrite
            /\ UNCHANGED <<count, db, insertCount>>
       ELSE /\ serialRequestsCount' = 0
            /\ IF IsNoData(resp) \/ IsMalformedLast(resp.res)
                 THEN /\ psPc' = "done"
                      /\ psWrite' = NoWrite
                      /\ UNCHANGED <<count, db, insertCount>>
                 ELSE LET rows == RowsToInsert(resp.res, psStart, psLimit, count)
                      IN  /\ db' = [db EXCEPT ![psKey] = @ \o rows]
                          /\ insertCount' = insertCount + 1
                          /\ psWrite' = rows
                          /\ count' = count + Len(rows)
                          /\ psPc' = IF StopsAfter(resp.res, psStart, psLimit,
                                                   count, resp.nextPage)
                                       THEN "done" ELSE "fetch"
  /\ UNCHANGED <<gwVars, spVars, coVars, rqVars, orVars>>

PsIterate ==
  /\ psPc = "fetch"
  /\ \E resp \in PassResponses(psKey, psStart, psEnd) : PsIterateWith(resp)

\* _getDataFromApi throws inside the loop: the pass is abandoned, what it
\* has inserted stays.
PsThrow ==
  /\ psPc = "fetch"
  /\ psReq' = [start |-> psStart, end |-> psEnd, limit |-> psLimit]
  /\ reqCount' = reqCount + 1
  /\ psPc' = "thrown"
  /\ UNCHANGED <<psKey, psStart, psArgsEnd, psLimit, psEnd, count, serialRequestsCount,
                 psResp, psWrite, psPages, db, insertCount>>
  /\ UNCHANGED <<gwVars, spVars, coVars, rqVars, orVars>>

\* The pass has returned to its caller: its locals are gone.
PsReturn ==
  /\ psPc' = "parked"
  /\ psKey' = NoTable
  /\ psStart' = 0
  /\ psArgsEnd' = Null
  /\ psLimit' = 0
  /\ psEnd' = Null
  /\ count' = 0
  /\ serialRequestsCount' = 0
  /\ psReq' = NoRequest
  /\ psResp' = NoResponse
  /\ psWrite' = NoWrite
  /\ psPages' = <<>>

\* The fetch-pass layer at rest.
PsParked ==
  /\ psPc = "parked"
  /\ psKey = NoTable
  /\ psStart = 0
  /\ psArgsEnd = Null
  /\ psLimit = 0
  /\ psEnd = Null
  /\ count = 0
  /\ serialRequestsCount = 0
  /\ psReq = NoRequest
  /\ psResp = NoResponse
  /\ psWrite = NoWrite
  /\ psPages = <<>>

(***************************************************************************)
(* Detection: _checkItemNewDataArrObjType, _checkNewConfigurablePublicData *)
(***************************************************************************)
\* The schema after _checkItemNewDataArrObjType found lastDb as the newest
\* stored date and probe as the newest remote date (source lines 329-364).
DetectItem_anyProbe(schema, lastDb, probe) ==
  IF probe = Null
    THEN [schema EXCEPT !.hasNewData = FALSE]
    ELSE [schema EXCEPT !.hasNewData = TRUE,
                        !.start = IF lastDb = Null THEN 0 ELSE lastDb + 1]
\* A detector without the reset of source line 329: a schema keeps the
\* hasNewData an earlier detection left.
DetectItem_noReset(schema, lastDb, probe) ==
  IF probe # Null /\ lastDb = Null
    THEN [schema EXCEPT !.hasNewData = TRUE, !.start = 0]
    ELSE IF probe # Null /\ Truthy(compareElemsDbAndApi(lastDb, probe))
      THEN [schema EXCEPT !.hasNewData = TRUE, !.start = lastDb + 1]
      ELSE schema
DetectItem(schema, lastDb, probe) ==
  IF probe = Null
    THEN [schema EXCEPT !.hasNewData = FALSE]
    ELSE IF lastDb = Null
      THEN [schema EXCEPT !.hasNewData = TRUE, !.start = 0]
      ELSE LET lastDateInDb == compareElemsDbAndApi(lastDb, probe)
           IN  IF Truthy(lastDateInDb)
                 THEN [schema EXCEPT !.hasNewData = TRUE,
                                     !.start = lastDateInDb + 1]
                 ELSE [schema EXCEPT !.hasNewData = FALSE]

\* One entry of schema.start of a configurable public schema.
StartConf(symbol, from, to, curr) ==
  [symbol |-> symbol, baseStartFrom |-> from, baseStartTo |-> to,
   currStart |-> curr]

\* The schema after one iteration of the loop of
\* _checkNewConfigurablePublicData over {symbol, start} (source lines
\* 248-321): lastDb and firstDb are the newest and oldest stored dates of the
\* symbol, probe the newest remote date, symbolOk whether the probe carries
\* the symbol asked for.
DetectSymbol(schema, symbol, start, lastDb, firstDb, probe, symbolOk) ==
  IF probe = Null \/ ~symbolOk
    THEN schema
    ELSE IF lastDb = Null
      THEN [schema EXCEPT !.hasNewData = TRUE,
                          !.starts = Append(@, StartConf(symbol, Null, Null, start))]
      ELSE LET lastDateInDb == compareElemsDbAndApi(lastDb, probe)
               isChangedBaseStart == compareElemsDbAndApi(start, firstDb)
               gap == Truthy(isChangedBaseStart)
           IN  [schema EXCEPT
                  !.hasNewData = @ \/ Truthy(lastDateInDb) \/ gap,
                  !.starts = Append(@, StartConf(
                     symbol,
                     IF gap THEN start ELSE Null,
                     IF gap THEN firstDb - 1 ELSE Null,
                     IF Truthy(lastDateInDb) THEN lastDateInDb + 1 ELSE Null))]

\* The probes of a configurable public schema: the date, and whether the
\* record carries the symbol asked for.
SymbolProbes(table) ==
  CASE gwMode = "remote" -> {[date |-> d, symbolOk |-> TRUE] : d \in ProbeResponses(table)}
    [] gwMode = "foreign" ->
         {[date |-> IF remote[table] = {} THEN Null ELSE Max(remote[table]),
           symbolOk |-> FALSE]}
    [] OTHER -> [date : ProbeResponses(table), symbolOk : BOOLEAN]

RECURSIVE Windows(_)
\* The fetch passes _insertApiDataPublicArrObjTypeToDb makes for the entries
\* of schema.start, in order: per entry the gap pass, if both of its bounds
\* are integers, then the forward pass, if currStart is an integer (source
\* lines 466-523).
Windows(starts) ==
  IF starts = <<>> THEN <<>>
  ELSE LET dates == Head(starts)
           gapPass ==
             IF IsInteger(dates.baseStartFrom) /\ IsInteger(dates.baseStartTo)
               THEN <<[symbol |-> dates.symbol, start |-> dates.baseStartFrom,
                       end |-> dates.baseStartTo]>>
               ELSE <<>>
           forwardPass ==
             IF IsInteger(dates.currStart)
               THEN <<[symbol |-> dates.symbol, start |-> dates.currStart,
                       end |-> Now]>>
               ELSE <<>>
       IN  gapPass \o forwardPass \o Windows(Tail(starts))

(***************************************************************************)
(* insertNewDataToDbMultiUser                                              *)
(***************************************************************************)
\* Values of this._auth that are no Map, and Map values that are no valid
\* credentials: a value that is no object, an object without string
\* apiKey/apiSecret. A valid credential is the number (>= 1) of its account.
NoAuth == <<-2>>
NotMap == <<-3>>
NonObject == -1
BadKeys == 0

\* Source lines 90-94: `!this._auth || !(this._auth instanceof Map) ||
\* this._auth.size === 0`
NoAccounts_missingOnly(a) == a = NoAuth
NoAccounts_anySize(a) == a = NoAuth \/ a = NotMap \/ Len(a) >= 0
NoAccounts(a) == a = NoAuth \/ a = NotMap \/ Len(a) = 0

\* Source lines 88-101: the account set is loaded and checked.
MuStart ==
  /\ pc = "mu_start"
  /\ IF NoAccounts(auth)
       THEN /\ progressLog' = Append(progressLog, Unauthorized)
            /\ pc' = "returned"
       ELSE /\ progressLog' = progressLog
            /\ pc' = "mu_loop"
  /\ muCount' = 0
  /\ muProgress' = 0
  /\ authIdx' = 0
  /\ UNCHANGED <<runNo, auth, schemas, curAuth, chkIdx, symIdx, mcm, mcmIdx,
                 subCount, subProgress, prevProgress, pubStep, startIdx,
                 passLog, hookState, hookCalls, hookArgs, ghostVars>>
  /\ UNCHANGED <<spVars, coVars, rqVars, psVars, stVars>>

\* Source lines 103-106: a Map value that is no object is passed over.
MuSkipEntry ==
  /\ pc = "mu_loop"
  /\ authIdx < Len(auth)
  /\ auth[authIdx + 1] = NonObject
  /\ authIdx' = authIdx + 1
  /\ UNCHANGED <<pc, runNo, auth, muCount, muProgress, schemas, curAuth,
                 chkIdx, symIdx, mcm, mcmIdx, subCount, subProgress,
                 prevProgress, pubStep, startIdx, progressLog, passLog,
                 hookState, hookCalls, hookArgs, ghostVars>>
  /\ UNCHANGED <<spVars, coVars, rqVars, psVars, stVars>>

\* Source lines 108-110: insertNewDataToDb is called for the next account.
MuCallAccount ==
  /\ pc = "mu_loop"
  /\ authIdx < Len(auth)
  /\ auth[authIdx + 1] # NonObject
  /\ authIdx' = authIdx + 1
  /\ muCount' = muCount + 1
  /\ curAuth' = auth[authIdx + 1]
  /\ passLog' = <<>>
  /\ pc' = "acct_enter"
  /\ UNCHANGED <<runNo, auth, muProgress, schemas, chkIdx, symIdx, mcm,
                 mcmIdx, subCount, subProgress, prevProgress, pubStep,
                 startIdx, progressLog, hookState, hookCalls, hookArgs,
                 ghostVars>>
  /\ UNCHANGED <<spVars, coVars, rqVars, psVars, stVars>>

\* Source line 113: after the last account, insertNewPublicDataToDb(progress).
MuCallPublic ==
  /\ pc = "mu_loop"
  /\ authIdx = Len(auth)
  /\ prevProgress' = muProgress
  /\ chkIdx' = 0
  /\ passLog' = <<>>
  /\ pc' = "pub_check"
  /\ UNCHANGED <<runNo, auth, authIdx, muCount, muProgress, schemas, curAuth,
                 symIdx, mcm, mcmIdx, subCount, subProgress, pubStep,
                 startIdx, progressLog, hookState, hookCalls, hookArgs,
                 ghostVars>>
  /\ UNCHANGED <<spVars, coVars, rqVars, psVars, stVars>>

(***************************************************************************)
(* insertNewDataToDb(auth, userProgress)                                   *)
(***************************************************************************)
\* Source lines 166-173: no string apiKey/apiSecret; the marker is published
\* and the call returns undefined.
AcctUnauthorized ==
  /\ pc = "acct_enter"
  /\ curAuth = BadKeys
  /\ progressLog' = Append(progressLog, Unauthorized)
  /\ passLog' = Append(passLog, Unauthorized)
  /\ muProgress' = Null
  /\ pc' = "mu_loop"
  /\ UNCHANGED <<runNo, auth, authIdx, muCount, schemas, curAuth, chkIdx,
                 symIdx, mcm, mcmIdx, subCount, subProgress, prevProgress,
                 pubStep, startIdx, hookState, hookCalls, hookArgs, ghostVars>>
  /\ UNCHANGED <<spVars, coVars, rqVars, psVars, stVars>>

\* Source lines 175, 197-198: checkNewData starts over a copy of the map
\* (the schema objects are shared).
AcctEnter ==
  /\ pc = "acct_enter"
  /\ curAuth # BadKeys
  /\ chkIdx' = 0
  /\ pc' = "acct_check"
  /\ UNCHANGED <<runNo, auth, authIdx, muCount, muProgress, schemas, curAuth,
                 symIdx, mcm, mcmIdx, subCount, subProgress, prevProgress,
                 pubStep, startIdx, progressLog, passLog, hookState,
                 hookCalls, hookArgs, ghostVars>>
  /\ UNCHANGED <<spVars, coVars, rqVars, psVars, stVars>>

\* _checkNewDataArrObjType: a schema that is not account-scoped insertable
\* is passed over (source lines 369-371).
AcctCheckSkip ==
  /\ pc = "acct_check"
  /\ chkIdx < Len(schemas)
  /\ ~IsInsertable(schemas[chkIdx + 1], FALSE)
  /\ chkIdx' = chkIdx + 1
  /\ UNCHANGED <<pc, runNo, auth, authIdx, muCount, muProgress, schemas,
                 curAuth, symIdx, mcm, mcmIdx, subCount, subProgress,
                 prevProgress, pubStep, startIdx, progressLog, passLog,
                 hookState, hookCalls, hookArgs, ghostVars>>
  /\ UNCHANGED <<spVars, coVars, rqVars, psVars, stVars>>

\* _checkItemNewDataArrObjType(method, schema, auth): the newest stored row,
\* one probe of the gateway, the decision.
AcctDetect ==
  /\ pc = "acct_check"
  /\ chkIdx < Len(schemas)
  /\ IsInsertable(schemas[chkIdx + 1], FALSE)
  /\ LET i == chkIdx + 1
         table == Table(i, curAuth)
     IN  \E probe \in ProbeResponses(table) :
           schemas' = [schemas EXCEPT
                         ![i] = DetectItem(@, LastElemFromDb(table), probe)]
  /\ reqCount' = reqCount + 1
  /\ chkIdx' = chkIdx + 1
  /\ UNCHANGED <<pc, runNo, auth, authIdx, muCount, muProgress, curAuth,
                 symIdx, mcm, mcmIdx, subCount, subProgress, prevProgress,
                 pubStep, startIdx, progressLog, passLog, hookState,
                 hookCalls, hookArgs, runStartRows, prevOutcome, aborted>>
  /\ UNCHANGED <<db, insertCount, gwVars>>
  /\ UNCHANGED <<spVars, coVars, rqVars, psVars>>

\* The probe of a detector throws: the error leaves the run.
DetectThrow ==
  /\ \/ /\ pc = "acct_check"
        /\ chkIdx < Len(schemas)
        /\ IsInsertable(schemas[chkIdx + 1], FALSE)
     \/ /\ pc = "pub_conf"
        /\ symIdx < Len(conf)
  /\ reqCount' = reqCount + 1
  /\ pc' = "failed"
  /\ UNCHANGED <<runNo, auth, authIdx, muCount, muProgress, schemas, curAuth,
                 chkIdx, symIdx, mcm, mcmIdx, subCount, subProgress,
                 prevProgress, pubStep, startIdx, progressLog, passLog,
                 hookState, hookCalls, hookArgs, runStartRows, prevOutcome,
                 aborted>>
  /\ UNCHANGED <<db, insertCount, gwVars>>
  /\ UNCHANGED <<spVars, coVars, rqVars, psVars>>

\* Source lines 202, 176-179: filterMethodCollMap, then the locals of the loop.
AcctCheckDone ==
  /\ pc = "acct_check"
  /\ chkIdx = Len(schemas)
  /\ mcm' = filterMethodCollMap(schemas, FALSE)
  /\ mcmIdx' = 0
  /\ subCount' = 0
  /\ subProgress' = 0
  /\ pc' = "acct_loop"
  /\ UNCHANGED <<runNo, auth, authIdx, muCount, muProgress, schemas, curAuth,
                 chkIdx, symIdx, prevProgress, pubStep, startIdx,
                 progressLog, passLog, hookState, hookCalls, hookArgs,
                 ghostVars>>
  /\ UNCHANGED <<spVars, coVars, rqVars, psVars, stVars>>

\* `item.start` as _getMethodArgMap takes it: 0 when undefined.
StartArg(start) == IF start = Null THEN 0 ELSE start

\* Source lines 181-184: the fetch pass of the next schema with new data.
\* A loop that starts the pass without awaiting it (no `await` at line 184).
AcctBeginPass_detached ==
  /\ pc = "acct_loop"
  /\ mcmIdx < Len(mcm)
  /\ LET i == mcm[mcmIdx + 1]
     IN  PsBegin(Table(i, curAuth), StartArg(schemas[i].start), Now, fetchLimit)
  /\ mcmIdx' = mcmIdx + 1
  /\ pc' = "acct_loop"
  /\ UNCHANGED <<runNo, auth, authIdx, muCount, muProgress, schemas, curAuth,
                 chkIdx, symIdx, mcm, subCount, subProgress,
                 prevProgress, pubStep, startIdx, progressLog, passLog,
                 hookState, hookCalls, hookArgs, ghostVars>>
  /\ UNCHANGED <<spVars, coVars, rqVars, stVars>>

AcctBeginPass ==
  /\ pc = "acct_loop"
  /\ mcmIdx < Len(mcm)
  /\ LET i == mcm[mcmIdx + 1]
     IN  PsBegin(Table(i, curAuth), StartArg(schemas[i].start), Now, fetchLimit)
  /\ pc' = "acct_pass"
  /\ UNCHANGED <<runNo, auth, authIdx, muCount, muProgress, schemas, curAuth,
                 chkIdx, symIdx, mcm, mcmIdx, subCount, subProgress,
                 prevProgress, pubStep, startIdx, progressLog, passLog,
                 hookState, hookCalls, hookArgs, ghostVars>>
  /\ UNCHANGED <<spVars, coVars, rqVars, stVars>>

\* Source lines 186-191: the pass has returned; count, progress, setProgress.
AcctAfterPass ==
  /\ pc = "acct_pass"
  /\ psPc = "done"
  /\ subCount' = subCount + 1
  /\ subProgress' = AccountProgress(subCount + 1, Len(schemas), muCount, Len(auth))
  /\ PublishBelow100(AccountProgress(subCount + 1, Len(schemas), muCount, Len(auth)))
  /\ mcmIdx' = mcmIdx + 1
  /\ pc' = "acct_loop"
  /\ PsReturn
  /\ UNCHANGED <<runNo, auth, authIdx, muCount, muProgress, schemas, curAuth,
                 chkIdx, symIdx, mcm, prevProgress, pubStep, startIdx,
                 hookState, hookCalls, hookArgs, ghostVars>>
  /\ UNCHANGED <<spVars, coVars, rqVars, stVars>>

\* Source line 194: `return progress`.
AcctReturn ==
  /\ pc = "acct_loop"
  /\ mcmIdx = Len(mcm)
  /\ muProgress' = subProgress
  /\ pc' = "mu_loop"
  /\ UNCHANGED <<runNo, auth, authIdx, muCount, schemas, curAuth, chkIdx,
                 symIdx, mcm, mcmIdx, subCount, subProgress, prevProgress,
                 pubStep, startIdx, progressLog, passLog, hookState,
                 hookCalls, hookArgs, ghostVars>>
  /\ UNCHANGED <<spVars, coVars, rqVars, psVars, stVars>>

\* A caller that catches the error of a pass and goes on to the hooks.
PassFailed_swallowed ==
  /\ pc \in {"acct_pass", "pub_pass"}
  /\ psPc = "thrown"
  /\ pc' = "hooks"
  /\ UNCHANGED <<runNo, auth, authIdx, muCount, muProgress, schemas, curAuth,
                 chkIdx, symIdx, mcm, mcmIdx, subCount, subProgress,
                 prevProgress, pubStep, startIdx, progressLog, passLog,
                 hookState, hookCalls, hookArgs, ghostVars>>
  /\ UNCHANGED <<spVars, coVars, rqVars, psVars, stVars>>

\* A fetch pass threw: nothing catches the error, it leaves the run.
PassFailed ==
  /\ pc \in {"acct_pass", "pub_pass"}
  /\ psPc = "thrown"
  /\ pc' = "failed"
  /\ aborted' = IF count >= 1
                  THEN [table |-> psKey, start |-> psStart, end |-> psArgsEnd]
                  ELSE aborted
  /\ UNCHANGED <<runNo, auth, authIdx, muCount, muProgress, schemas, curAuth,
                 chkIdx, symIdx, mcm, mcmIdx, subCount, subProgress,
                 prevProgress, pubStep, startIdx, progressLog, passLog,
                 hookState, hookCalls, hookArgs, runStartRows, prevOutcome>>
  /\ UNCHANGED <<spVars, coVars, rqVars, psVars, stVars>>


(***************************************************************************)
(* insertNewPublicDataToDb(prevProgress)                                   *)
(***************************************************************************)
\* _checkNewDataPublicArrObjType: a schema that is not public insertable is
\* passed over (source lines 215-217).
PubCheckSkip ==
  /\ pc = "pub_check"
  /\ chkIdx < Len(schemas)
  /\ ~IsInsertable(schemas[chkIdx + 1], TRUE)
  /\ chkIdx' = chkIdx + 1
  /\ UNCHANGED <<pc, runNo, auth, authIdx, muCount, muProgress, schemas,
                 curAuth, symIdx, mcm, mcmIdx, subCount, subProgress,
                 prevProgress, pubStep, startIdx, progressLog, passLog,
                 hookState, hookCalls, hookArgs, ghostVars>>
  /\ UNCHANGED <<spVars, coVars, rqVars, psVars, stVars>>

\* _checkNewConfigurablePublicData (source lines 232-246): hasNewData is
\* cleared, schema.start is left as it is, the configuration is read.
PubConfBegin ==
  /\ pc = "pub_check"
  /\ chkIdx < Len(schemas)
  /\ IsInsertable(schemas[chkIdx + 1], TRUE)
  /\ schemas' = [schemas EXCEPT ![chkIdx + 1].hasNewData = FALSE]
  /\ IF conf = <<>>
       THEN /\ chkIdx' = chkIdx + 1
            /\ UNCHANGED <<pc, symIdx>>
       ELSE /\ symIdx' = 0
            /\ pc' = "pub_conf"
            /\ UNCHANGED chkIdx
  /\ UNCHANGED <<runNo, auth, authIdx, muCount, muProgress, curAuth, mcm,
                 mcmIdx, subCount, subProgress, prevProgress, pubStep,
                 startIdx, progressLog, passLog, hookState, hookCalls,
                 hookArgs, ghostVars>>
  /\ UNCHANGED <<spVars, coVars, rqVars, psVars, stVars>>

\* One iteration of its loop over the configured symbols.
PubConfSymbol ==
  /\ pc = "pub_conf"
  /\ symIdx < Len(conf)
  /\ LET i == chkIdx + 1
         symbol == conf[symIdx + 1][1]
         start == conf[symIdx + 1][2]
         table == Table(i, symbol)
     IN  \E probe \in SymbolProbes(table) :
           schemas' = [schemas EXCEPT
                         ![i] = DetectSymbol(@, symbol, start,
                                             LastElemFromDb(table),
                                             FirstElemFromDb(table),
                                             probe.date, probe.symbolOk)]
  /\ reqCount' = reqCount + 1
  /\ symIdx' = symIdx + 1
  /\ UNCHANGED <<pc, runNo, auth, authIdx, muCount, muProgress, curAuth,
                 chkIdx, mcm, mcmIdx, subCount, subProgress, prevProgress,
                 pubStep, startIdx, progressLog, passLog, hookState,
                 hookCalls, hookArgs, ghostVars>>
  /\ UNCHANGED <<db, insertCount, gwVars>>
  /\ UNCHANGED <<spVars, coVars, rqVars, psVars>>

PubConfDone ==
  /\ pc = "pub_conf"
  /\ symIdx = Len(conf)
  /\ chkIdx' = chkIdx + 1
  /\ pc' = "pub_check"
  /\ UNCHANGED <<runNo, auth, authIdx, muCount, muProgress, schemas, curAuth,
                 symIdx, mcm, mcmIdx, subCount, subProgress, prevProgress,
                 pubStep, startIdx, progressLog, passLog, hookState,
                 hookCalls, hookArgs, ghostVars>>
  /\ UNCHANGED <<spVars, coVars, rqVars, psVars, stVars>>

\* Source lines 210, 145-149: filterMethodCollMap, then the locals of the loop.
PubCheckDone ==
  /\ pc = "pub_check"
  /\ chkIdx = Len(schemas)
  /\ mcm' = filterMethodCollMap(schemas, TRUE)
  /\ mcmIdx' = 0
  /\ subCount' = 0
  /\ subProgress' = 0
  /\ pubStep' = "item"
  /\ startIdx' = 0
  /\ pc' = "pub_loop"
  /\ UNCHANGED <<runNo, auth, authIdx, muCount, muProgress, schemas, curAuth,
                 chkIdx, symIdx, prevProgress, progressLog, passLog,
                 hookState, hookCalls, hookArgs, ghostVars>>
  /\ UNCHANGED <<spVars, coVars, rqVars, psVars, stVars>>

IsUpdatable(schema) == schema.type \in {TPubUpdArr, TPubUpdArrObj}

RECURSIVE Descending(_)
\* The dates of S, newest first.
Descending(S) == IF S = {} THEN <<>> ELSE <<Max(S)>> \o Descending(S \ {Max(S)})

\* What the gateway answers to the request of a full listing: the identities
\* of the remote rows, or a body that is no array.
Listings == {NotArray, <<>>, <<1>>, <<2>>}

\* The gateway of the "remote" mode lists the identities the remote holds
\* for the collection of the table.
ListingResponses(table) ==
  IF gwMode = "remote" THEN {Descending(remote[table])} ELSE Listings

\* A row of an updatable table: its identity-field value and the run that
\* wrote it (0 for a row that was there before the first run).
Stored(id, writer) == <<id, writer>>

Ids(rows) == {rows[k][1] : k \in DOMAIN rows}

\* dao.removeElemsFromDbIfNotInLists
RemoveElemsFromDbIfNotInLists(rows, list) ==
  SelectSeq(rows, LAMBDA r : r[1] \in Range(list))

\* dao.insertElemsToDbIfNotExists
InsertElemsToDbIfNotExists(rows, elems, writer) ==
  rows \o [k \in 1..Len(SelectSeq(elems, LAMBDA e : e \notin Ids(rows))) |->
            Stored(SelectSeq(elems, LAMBDA e : e \notin Ids(rows))[k], writer)]

\* dao.insertElemsToDb
InsertElemsToDb(rows, elems, writer) ==
  rows \o [k \in 1..Len(elems) |-> Stored(elems[k], writer)]

\* A reconciliation that inserts the listing with dao.insertElemsToDb.
Reconciled_plainInsert(rows, listing, writer) ==
  InsertElemsToDb(RemoveElemsFromDbIfNotInLists(rows, listing), listing, writer)

\* Source lines 640-643, 673-676:
\* `Array.isArray(elemsFromApi) && elemsFromApi.length > 0`
Reconciles(elemsFromApi) == elemsFromApi # NotArray /\ elemsFromApi # <<>>

\* Source lines 644-652, 683-691: dao.removeElemsFromDbIfNotInLists, then
\* dao.insertElemsToDbIfNotExists, both with the listing.
Reconciled(rows, listing, writer) ==
  InsertElemsToDbIfNotExists(RemoveElemsFromDbIfNotInLists(rows, listing),
                             listing, writer)

\* _updateApiDataArrObjTypeToDb and _updateApiDataArrTypeToDb for an
\* updatable schema: one request of the listing; a listing that is a
\* non-empty array is reconciled with the table.
PubUpdate ==
  /\ pc = "pub_loop"
  /\ mcmIdx < Len(mcm)
  /\ pubStep = "item"
  /\ IsUpdatable(schemas[mcm[mcmIdx + 1]])
  /\ \E elemsFromApi \in ListingResponses(Table(mcm[mcmIdx + 1], 0)) :
       LET table == Table(mcm[mcmIdx + 1], 0)
       IN  IF Reconciles(elemsFromApi)
             THEN /\ db' = [db EXCEPT
                             ![table] = Reconciled(@, elemsFromApi, runNo)]
                  /\ insertCount' = insertCount + 1
             ELSE UNCHANGED <<db, insertCount>>
  /\ reqCount' = reqCount + 1
  /\ pubStep' = "updated"
  /\ UNCHANGED <<pc, runNo, auth, authIdx, muCount, muProgress, schemas,
                 curAuth, chkIdx, symIdx, mcm, mcmIdx, subCount, subProgress,
                 prevProgress, startIdx, progressLog, passLog, hookState,
                 hookCalls, hookArgs, ghostVars>>
  /\ UNCHANGED <<gwVars, spVars, coVars, rqVars, psVars>>

\* The request of the listing throws.
PubUpdateThrow ==
  /\ pc = "pub_loop"
  /\ mcmIdx < Len(mcm)
  /\ pubStep = "item"
  /\ IsUpdatable(schemas[mcm[mcmIdx + 1]])
  /\ reqCount' = reqCount + 1
  /\ pc' = "failed"
  /\ UNCHANGED <<runNo, auth, authIdx, muCount, muProgress, schemas, curAuth,
                 chkIdx, symIdx, mcm, mcmIdx, subCount, subProgress,
                 prevProgress, pubStep, startIdx, progressLog, passLog,
                 hookState, hookCalls, hookArgs, ghostVars>>
  /\ UNCHANGED <<db, insertCount, gwVars>>
  /\ UNCHANGED <<spVars, coVars, rqVars, psVars>>

\* _insertApiDataPublicArrObjTypeToDb, _insertConfigurablePublicApiData:
\* the next fetch pass for the entries of schema.start.
PubBeginPass ==
  /\ pc = "pub_loop"
  /\ mcmIdx < Len(mcm)
  /\ LET i == mcm[mcmIdx + 1]
         windows == Windows(schemas[i].starts)
     IN  /\ IsInsertable(schemas[i], TRUE)
         /\ startIdx < Len(windows)
         /\ PsBegin(Table(i, windows[startIdx + 1].symbol),
                    windows[startIdx + 1].start,
                    windows[startIdx + 1].end,
                    fetchLimit)
  /\ pc' = "pub_pass"
  /\ UNCHANGED <<runNo, auth, authIdx, muCount, muProgress, schemas, curAuth,
                 chkIdx, symIdx, mcm, mcmIdx, subCount, subProgress,
                 prevProgress, pubStep, startIdx, progressLog, passLog,
                 hookState, hookCalls, hookArgs, ghostVars>>
  /\ UNCHANGED <<spVars, coVars, rqVars, stVars>>

\* The pass has returned.
PubAfterPass ==
  /\ pc = "pub_pass"
  /\ psPc = "done"
  /\ startIdx' = startIdx + 1
  /\ pc' = "pub_loop"
  /\ PsReturn
  /\ UNCHANGED <<runNo, auth, authIdx, muCount, muProgress, schemas, curAuth,
                 chkIdx, symIdx, mcm, mcmIdx, subCount, subProgress,
                 prevProgress, pubStep, progressLog, passLog, hookState,
                 hookCalls, hookArgs, ghostVars>>
  /\ UNCHANGED <<spVars, coVars, rqVars, stVars>>

\* Source lines 155-160: the three steps of the item are over; count,
\* progress, setProgress.
PubItemDone ==
  /\ pc = "pub_loop"
  /\ mcmIdx < Len(mcm)
  /\ LET schema == schemas[mcm[mcmIdx + 1]]
     IN  IF IsUpdatable(schema)
           THEN pubStep = "updated"
           ELSE startIdx = Len(Windows(schema.starts))
  /\ subCount' = subCount + 1
  /\ subProgress' = PublicProgress(prevProgress, subCount + 1, Len(mcm))
  /\ PublishBelow100(PublicProgress(prevProgress, subCount + 1, Len(mcm)))
  /\ mcmIdx' = mcmIdx + 1
  /\ pubStep' = "item"
  /\ startIdx' = 0
  /\ UNCHANGED <<pc, runNo, auth, authIdx, muCount, muProgress, schemas,
                 curAuth, chkIdx, symIdx, mcm, prevProgress, hookState,
                 hookCalls, hookArgs, ghostVars>>
  /\ UNCHANGED <<spVars, coVars, rqVars, psVars, stVars>>

\* insertNewPublicDataToDb returns; source line 115 calls _afterAllInserts.
PubReturn ==
  /\ pc = "pub_loop"
  /\ mcmIdx = Len(mcm)
  /\ pc' = "hooks"
  /\ UNCHANGED <<runNo, auth, authIdx, muCount, muProgress, schemas, curAuth,
                 chkIdx, symIdx, mcm, mcmIdx, subCount, subProgress,
                 prevProgress, pubStep, startIdx, progressLog, passLog,
                 hookState, hookCalls, hookArgs, ghostVars>>
  /\ UNCHANGED <<spVars, coVars, rqVars, psVars, stVars>>

(***************************************************************************)
(* _afterAllInserts and the last setProgress                               *)
(***************************************************************************)
runLocals == <<runNo, auth, authIdx, muCount, muProgress, schemas, curAuth,
               chkIdx, symIdx, mcm, mcmIdx, subCount, subProgress,
               prevProgress, pubStep, startIdx>>

\* Source lines 120-126: no hook is registered.
HooksNone ==
  /\ pc = "hooks"
  /\ hookState = <<>>
  /\ pc' = "final"
  /\ UNCHANGED <<runLocals, progressLog, passLog, hookState, hookCalls,
                 hookArgs, ghostVars>>
  /\ UNCHANGED <<spVars, coVars, rqVars, psVars, stVars>>

\* Source line 128: `map(hook => hook(this))` calls every hook in turn, each
\* returning a promise.
HooksLaunch ==
  /\ pc = "hooks"
  /\ hookState # <<>>
  /\ hookState' = [h \in DOMAIN hookState |-> "pending"]
  /\ hookCalls' = [h \in DOMAIN hookCalls |-> hookCalls[h] + 1]
  /\ hookArgs' = [h \in DOMAIN hookArgs |-> "this"]
  /\ pc' = "hooks_wait"
  /\ UNCHANGED <<runLocals, progressLog, passLog, ghostVars>>
  /\ UNCHANGED <<spVars, coVars, rqVars, psVars, stVars>>

\* Hook k throws instead of returning a promise: map stops there, the hooks
\* after k are not called and the error leaves the run.
HookThrows ==
  /\ pc = "hooks"
  /\ \E k \in DOMAIN hookState :
       /\ hookState' = [h \in DOMAIN hookState |->
                          IF h < k THEN "pending"
                          ELSE IF h = k THEN "threw" ELSE hookState[h]]
       /\ hookCalls' = [h \in DOMAIN hookCalls |->
                          IF h <= k THEN hookCalls[h] + 1 ELSE hookCalls[h]]
       /\ hookArgs' = [h \in DOMAIN hookArgs |->
                          IF h <= k THEN "this" ELSE hookArgs[h]]
  /\ pc' = "failed"
  /\ UNCHANGED <<runLocals, progressLog, passLog, ghostVars>>
  /\ UNCHANGED <<spVars, coVars, rqVars, psVars, stVars>>

\* The promise of a hook settles.
HookResolve ==
  /\ \E h \in DOMAIN hookState :
       /\ hookState[h] = "pending"
       /\ hookState' = [hookState EXCEPT ![h] = "resolved"]
  /\ UNCHANGED <<pc, runLocals, progressLog, passLog, hookCalls, hookArgs,
                 ghostVars>>
  /\ UNCHANGED <<spVars, coVars, rqVars, psVars, stVars>>

HookReject ==
  /\ \E h \in DOMAIN hookState :
       /\ hookState[h] = "pending"
       /\ hookState' = [hookState EXCEPT ![h] = "rejected"]
  /\ UNCHANGED <<pc, runLocals, progressLog, passLog, hookCalls, hookArgs,
                 ghostVars>>
  /\ UNCHANGED <<spVars, coVars, rqVars, psVars, stVars>>

\* A join that waits for every promise to settle, whatever the outcome.
PromiseAllResolves_settled(states) ==
  \A h \in DOMAIN states : states[h] \in {"resolved", "rejected"}

\* Source line 130: Promise.all resolves once every promise has resolved,
\* and rejects as soon as one has rejected.
PromiseAllResolves(states) ==
  \A h \in DOMAIN states : states[h] = "resolved"

\* A join that gives up while a promise is pending, none having rejected.
PromiseAllRejects_onPending(states) ==
  \E h \in DOMAIN states : states[h] \in {"rejected", "pending"}
PromiseAllRejects(states) ==
  \E h \in DOMAIN states : states[h] = "rejected"

HooksAllResolved ==
  /\ pc = "hooks_wait"
  /\ PromiseAllResolves(hookState)
  /\ pc' = "final"
  /\ UNCHANGED <<runLocals, progressLog, passLog, hookState, hookCalls,
                 hookArgs, ghostVars>>
  /\ UNCHANGED <<spVars, coVars, rqVars, psVars, stVars>>

HooksRejected ==
  /\ pc = "hooks_wait"
  /\ PromiseAllRejects(hookState)
  /\ pc' = "failed"
  /\ UNCHANGED <<runLocals, progressLog, passLog, hookState, hookCalls,
                 hookArgs, ghostVars>>
  /\ UNCHANGED <<spVars, coVars, rqVars, psVars, stVars>>

\* Source line 116: setProgress(100), then the run returns.
Final ==
  /\ pc = "final"
  /\ progressLog' = Append(progressLog, 100)
  /\ pc' = "returned"
  /\ UNCHANGED <<runLocals, passLog, hookState, hookCalls, hookArgs,
                 ghostVars>>
  /\ UNCHANGED <<spVars, coVars, rqVars, psVars, stVars>>

(***************************************************************************)
(* Interruption and re-invocation                                          *)
(***************************************************************************)
NoAbort == [table |-> NoTable, start |-> Null, end |-> Null]

RECURSIVE RowsIn(_, _)
\* The rows the tables of T hold in storage d.
RowsIn(d, T) ==
  IF T = {} THEN 0
  ELSE LET t == CHOOSE x \in T : TRUE
       IN  Len(d[t]) + RowsIn(d, T \ {t})
RowsHeld == RowsIn(db, DOMAIN db)

\* The process is stopped inside a fetch pass that has inserted rows and
\* was about to ask for the next page.
Crash ==
  /\ pc \in {"acct_pass", "pub_pass"}
  /\ psPc = "fetch"
  /\ count >= 1
  /\ pc' = "crashed"
  /\ aborted' = [table |-> psKey, start |-> psStart, end |-> psArgsEnd]
  /\ UNCHANGED <<runLocals, progressLog, passLog, hookState, hookCalls,
                 hookArgs, runStartRows, prevOutcome>>
  /\ UNCHANGED <<spVars, coVars, rqVars, psVars, stVars>>

\* The locals of a run before insertNewDataToDbMultiUser is called on a new
\* orchestrator whose schema objects are those of types.
Constructed(types) ==
  /\ schemas = [i \in DOMAIN types |-> NewSchema(types[i])]
  /\ authIdx = 0
  /\ muCount = 0
  /\ muProgress = 0
  /\ curAuth = NonObject
  /\ chkIdx = 0
  /\ symIdx = 0
  /\ mcm = <<>>
  /\ mcmIdx = 0
  /\ subCount = 0
  /\ subProgress = 0
  /\ prevProgress = 0
  /\ pubStep = "item"
  /\ startIdx = 0
  /\ progressLog = <<>>
  /\ passLog = <<>>

MaxRuns == 2

\* After the end of a run, however it ended, a new orchestrator is
\* constructed over the same storage and insertNewDataToDbMultiUser is called.
Rerun ==
  /\ pc \in {"returned", "failed", "crashed"}
  /\ runNo < MaxRuns
  /\ runNo' = runNo + 1
  /\ prevOutcome' = pc
  /\ runStartRows' = RowsHeld
  /\ pc' = "mu_start"
  /\ schemas' = [i \in DOMAIN schemas |-> NewSchema(schemas[i].type)]
  /\ authIdx' = 0
  /\ muCount' = 0
  /\ muProgress' = 0
  /\ curAuth' = NonObject
  /\ chkIdx' = 0
  /\ symIdx' = 0
  /\ mcm' = <<>>
  /\ mcmIdx' = 0
  /\ subCount' = 0
  /\ subProgress' = 0
  /\ prevProgress' = 0
  /\ pubStep' = "item"
  /\ startIdx' = 0
  /\ progressLog' = <<>>
  /\ passLog' = <<>>
  /\ PsReturn
  /\ UNCHANGED <<auth, hookState, hookCalls, hookArgs, aborted>>
  /\ UNCHANGED <<spVars, coVars, rqVars, stVars>>

\* No call of insertNewDataToDb besides the one of the run.
CoParked ==
  /\ coPc = <<>>
  /\ coChkIdx = <<>>
  /\ coMcm = <<>>
  /\ coMcmIdx = <<>>
  /\ coOwn = <<>>
  /\ coFetched = <<>>

\* The storage and the orchestration layer at rest, in the specifications of
\* the lower layers.
OrParked ==
  /\ Constructed(<<>>)
  /\ pc = "parked"
  /\ runNo = 0
  /\ auth = <<>>
  /\ hookState = <<>>
  /\ hookCalls = <<>>
  /\ hookArgs = <<>>
  /\ runStartRows = 0
  /\ prevOutcome = "none"
  /\ aborted = NoAbort

(***************************************************************************)
(* Progress-publisher layer                                                *)
(***************************************************************************)
MaxObservers == 2
MaxRegistrations == 2
MaxPublished == 3

\* `null`, the value the constructor gives this._asyncProgressHandler.
NoHandler == 0
Observers == 1..MaxObservers

\* What the run publishes: a percentage or the unauthorized marker.
PublishedValues == {Unauthorized, 50, 100}

\* A publisher that calls the observer and does not wait for it.
Awaited_never(handler) == FALSE

\* `if (this._asyncProgressHandler) { await this._asyncProgressHandler(progress) }`
Awaited(handler) == handler # NoHandler

SpInit ==
  /\ spPc = "idle"
  /\ asyncProgressHandler = NoHandler
  /\ regLog = <<>>
  /\ pubLog = <<>>
  /\ emitLog = <<>>
  /\ spErr = "none"

\* setAsyncProgressHandler(cb) with a function.
SetAsyncProgressHandler ==
  /\ spPc \in {"idle", "handler"}
  /\ Len(regLog) < MaxRegistrations
  /\ \E cb \in Observers :
       /\ asyncProgressHandler' = cb
       /\ regLog' = Append(regLog, cb)
  /\ UNCHANGED <<spPc, pubLog, emitLog, spErr>>
  /\ UNCHANGED allButSp

\* setAsyncProgressHandler(cb) with anything else: throws, registers nothing.
SetAsyncProgressHandlerNotFn ==
  /\ spPc \in {"idle", "handler"}
  /\ spErr # "AsyncProgressHandlerIsNotFnError"
  /\ spErr' = "AsyncProgressHandlerIsNotFnError"
  /\ UNCHANGED <<spPc, asyncProgressHandler, regLog, pubLog, emitLog>>
  /\ UNCHANGED allButSp

\* setProgress(progress), up to its first suspension: the observer, if one is
\* registered, is called and awaited; without one the event is emitted.
SetProgress ==
  /\ spPc = "idle"
  /\ Len(pubLog) < MaxPublished
  /\ \E progress \in PublishedValues :
       LET called == asyncProgressHandler # NoHandler
           waits == Awaited(asyncProgressHandler)
       IN  /\ pubLog' = Append(pubLog,
                               [value |-> progress,
                                observer |-> asyncProgressHandler,
                                outcome |-> IF called THEN "pending" ELSE "none",
                                emitted |-> ~waits])
           /\ emitLog' = IF waits THEN emitLog ELSE Append(emitLog, progress)
           /\ spPc' = IF waits THEN "handler" ELSE "idle"
  /\ UNCHANGED <<asyncProgressHandler, regLog, spErr>>
  /\ UNCHANGED allButSp

\* The awaited observer resolves: `this.emit('progress', progress)`.
HandlerResolved ==
  /\ spPc = "handler"
  /\ pubLog' = [pubLog EXCEPT ![Len(pubLog)].outcome = "resolved",
                              ![Len(pubLog)].emitted = TRUE]
  /\ emitLog' = Append(emitLog, pubLog[Len(pubLog)].value)
  /\ spPc' = "idle"
  /\ UNCHANGED <<asyncProgressHandler, regLog, spErr>>
  /\ UNCHANGED allButSp

\* The awaited observer rejects (or threw when called): setProgress rejects,
\* and with it the run that awaits it.
HandlerRejected ==
  /\ spPc = "handler"
  /\ pubLog' = [pubLog EXCEPT ![Len(pubLog)].outcome = "rejected"]
  /\ spPc' = "thrown"
  /\ spErr' = "observer"
  /\ UNCHANGED <<asyncProgressHandler, regLog, emitLog>>
  /\ UNCHANGED allButSp

\* The publisher at rest, in the specifications of the other layers.
SpParked ==
  /\ spPc = "parked"
  /\ asyncProgressHandler = NoHandler
  /\ regLog = <<>>
  /\ pubLog = <<>>
  /\ emitLog = <<>>
  /\ spErr = "none"

(***************************************************************************)
(* SpecRetry: one logical request                                          *)
(***************************************************************************)
RetryInit ==
  /\ CoParked
  /\ SpParked
  /\ RqInit
  /\ PsParked
  /\ OrParked
  /\ db = (NoTable :> <<>>)
  /\ insertCount = 0
  /\ reqCount = 0
  /\ gwMode = "any"
  /\ remote = (NoTable :> {})
  /\ conf = <<>>
  /\ fetchLimit = 0

RetryNext ==
  \/ RqEnter
  \/ RqSucceed
  \/ RqRateLimited
  \/ RqNonceSmall
  \/ RqOtherError
  \/ RqDelayDone

SpecRetry == RetryInit /\ [][RetryNext]_vars

\* The same request when every call of the gateway returns or throws and
\* every delay runs out: the loop takes its next step.
SpecRetryFair == RetryInit /\ [][RetryNext]_vars /\ WF_vars(RetryNext)

(***************************************************************************)
(* SpecProgress: registrations of observers and awaited setProgress calls  *)
(***************************************************************************)
ProgressInit ==
  /\ CoParked
  /\ SpInit
  /\ RqParked
  /\ PsParked
  /\ OrParked
  /\ db = (NoTable :> <<>>)
  /\ insertCount = 0
  /\ reqCount = 0
  /\ gwMode = "any"
  /\ remote = (NoTable :> {})
  /\ conf = <<>>
  /\ fetchLimit = 0

ProgressNext ==
  \/ SetAsyncProgressHandler
  \/ SetAsyncProgressHandlerNotFn
  \/ SetProgress
  \/ HandlerResolved
  \/ HandlerRejected

SpecProgress == ProgressInit /\ [][ProgressNext]_vars

(***************************************************************************)
(* SpecPass: one fetch pass for one table, any start and cap, against a    *)
(* gateway that answers every request with any response.                   *)
(***************************************************************************)
TheTable == Table(1, 1)

PassInit ==
  /\ CoParked
  /\ SpParked
  /\ RqParked
  /\ psPc = "fetch"
  /\ psKey = TheTable
  /\ psStart \in Dates
  /\ psArgsEnd = Now
  /\ psLimit \in 1..MaxLimit
  /\ psEnd = Now
  /\ count = 0
  /\ serialRequestsCount = 0
  /\ psReq = NoRequest
  /\ reqCount = 0
  /\ psResp = NoResponse
  /\ psWrite = NoWrite
  /\ psPages = <<>>
  /\ db = (TheTable :> <<>>)
  /\ insertCount = 0
  /\ gwMode = "any"
  /\ remote = (TheTable :> {})
  /\ conf = <<>>
  /\ fetchLimit = psLimit
  /\ OrParked

PassNext ==
  \/ PsIterate
  \/ PsThrow

SpecPass == PassInit /\ [][PassNext]_vars

\* The same pass when every call of _getDataFromApi returns or throws: the
\* loop takes its next iteration.
SpecPassFair == PassInit /\ [][PassNext]_vars /\ WF_vars(PassNext)

(***************************************************************************)
(* SpecPassWindow: one fetch pass against a gateway that may answer with   *)
(* any page and any next-page cursor that is not after the requested end   *)
(***************************************************************************)
PassWindowInit ==
  /\ CoParked
  /\ SpParked
  /\ RqParked
  /\ psPc = "fetch"
  /\ psKey = TheTable
  /\ psStart \in Dates
  /\ psArgsEnd = Now
  /\ psLimit \in 1..MaxLimit
  /\ psEnd = Now
  /\ count = 0
  /\ serialRequestsCount = 0
  /\ psReq = NoRequest
  /\ reqCount = 0
  /\ psResp = NoResponse
  /\ psWrite = NoWrite
  /\ psPages = <<>>
  /\ db = (TheTable :> <<>>)
  /\ insertCount = 0
  /\ gwMode = "window"
  /\ remote = (TheTable :> {})
  /\ conf = <<>>
  /\ fetchLimit = psLimit
  /\ OrParked

SpecPassWindow == PassWindowInit /\ [][PassNext]_vars

(***************************************************************************)
(* SpecSync: runs of one account over one schema, account-scoped or        *)
(* configurable public with one configured symbol, against a remote that   *)
(* holds a set of records and serves them newest first. Storage starts     *)
(* with what an earlier synchronisation of a range of dates left. A run    *)
(* may be stopped inside a pass, and is followed by another run.           *)
(***************************************************************************)
SyncInit ==
  /\ CoParked
  /\ SpParked
  /\ RqParked
  /\ PsParked
  /\ gwMode = "remote"
  /\ \E held \in SUBSET (1..MaxDate) : remote = (TheTable :> held)
  /\ \E lo \in 1..MaxDate, hi \in 0..MaxDate :
       db = (TheTable :> Descending({d \in remote[TheTable] : lo <= d /\ d <= hi}))
  /\ insertCount = 0
  /\ reqCount = 0
  /\ fetchLimit \in 1..MaxLimit
  /\ \/ /\ Constructed(<<TInsertable>>)
        /\ conf = <<>>
     \/ /\ Constructed(<<TPubInsertable>>)
        /\ \E start \in Dates : conf = <<<<1, start>>>>
  /\ pc = "mu_start"
  /\ runNo = 1
  /\ auth = <<1>>
  /\ hookState = <<>>
  /\ hookCalls = <<>>
  /\ hookArgs = <<>>
  /\ runStartRows = Len(db[TheTable])
  /\ prevOutcome = "none"
  /\ aborted = NoAbort

SyncNext ==
  \/ MuStart
  \/ MuCallAccount
  \/ MuCallPublic
  \/ AcctEnter
  \/ AcctCheckSkip
  \/ AcctDetect
  \/ DetectThrow
  \/ AcctCheckDone
  \/ AcctBeginPass
  \/ AcctAfterPass
  \/ AcctReturn
  \/ PsIterate
  \/ PsThrow
  \/ PassFailed
  \/ PubCheckSkip
  \/ PubConfBegin
  \/ PubConfSymbol
  \/ PubConfDone
  \/ PubCheckDone
  \/ PubBeginPass
  \/ PubAfterPass
  \/ PubItemDone
  \/ PubReturn
  \/ HooksNone
  \/ Final
  \/ Crash
  \/ Rerun

SpecSync == SyncInit /\ [][SyncNext]_vars

(***************************************************************************)
(* SpecRun: one run over any account set, schema map and hooks, against a  *)
(* gateway that answers with short pages of any shape.                     *)
(***************************************************************************)
MaxAccounts == 2
MaxSchemas == 3
MaxHooks == 2

\* The Maps getAuthFromDb can return: entry k is the credentials of account
\* k, an object without string keys, or no object.
AuthMaps ==
  UNION {[1..n -> {1, BadKeys, NonObject}] : n \in 0..MaxAccounts}
AuthSets ==
  {NoAuth, NotMap} \cup
  {[k \in DOMAIN m |-> IF m[k] = 1 THEN k ELSE m[k]] : m \in AuthMaps}

\* The two kinds of updatable schema differ in the fields compared only.
SchemaTypes == {TInsertable, TPubInsertable, TPubUpdArr}

RunInit ==
  /\ CoParked
  /\ SpParked
  /\ RqParked
  /\ PsParked
  /\ gwMode = "tiny"
  /\ remote = (NoTable :> {})
  /\ db = [t \in (1..MaxSchemas) \X (0..MaxAccounts) |-> <<>>]
  /\ insertCount = 0
  /\ reqCount = 0
  /\ fetchLimit = 1
  /\ \E n \in 1..MaxSchemas : \E types \in [1..n -> SchemaTypes] :
       /\ Constructed(types)
       /\ conf \in (IF TPubInsertable \in Range(types)
                      THEN {<<>>, <<<<1, 1>>>>} ELSE {<<>>})
  /\ pc = "mu_start"
  /\ runNo = 1
  /\ auth \in AuthSets
  /\ \E n \in 0..MaxHooks :
       /\ hookState = [h \in 1..n |-> "idle"]
       /\ hookCalls = [h \in 1..n |-> 0]
       /\ hookArgs = [h \in 1..n |-> "none"]
  /\ runStartRows = 0
  /\ prevOutcome = "none"
  /\ aborted = NoAbort

RunNext ==
  \/ MuStart
  \/ MuSkipEntry
  \/ MuCallAccount
  \/ MuCallPublic
  \/ AcctUnauthorized
  \/ AcctEnter
  \/ AcctCheckSkip
  \/ AcctDetect
  \/ DetectThrow
  \/ AcctCheckDone
  \/ AcctBeginPass
  \/ AcctAfterPass
  \/ AcctReturn
  \/ PsIterate
  \/ PsThrow
  \/ PassFailed
  \/ PubCheckSkip
  \/ PubConfBegin
  \/ PubConfSymbol
  \/ PubConfDone
  \/ PubCheckDone
  \/ PubUpdate
  \/ PubUpdateThrow
  \/ PubBeginPass
  \/ PubAfterPass
  \/ PubItemDone
  \/ PubReturn
  \/ HooksNone
  \/ HooksLaunch
  \/ HookThrows
  \/ HookResolve
  \/ HookReject
  \/ HooksAllResolved
  \/ HooksRejected
  \/ Final

SpecRun == RunInit /\ [][RunNext]_vars

(***************************************************************************)
(* SpecAccounts: the account passes of a run over one or two accounts and  *)
(* one or two account-scoped schemas, for any newest stored date and any   *)
(* newest remote date of each table, the date 0 included.                  *)
(***************************************************************************)
\* The tables of the first a accounts for the first n schemas.
AcctTables(n, a) == {Table(i, k) : i \in 1..n, k \in 1..a}

AccountsInit ==
  /\ CoParked
  /\ SpParked
  /\ RqParked
  /\ PsParked
  /\ gwMode = "remote"
  /\ \E shape \in {<<1, 1>>, <<2, 1>>, <<1, 2>>} :
       /\ remote \in [AcctTables(shape[1], shape[2]) ->
                        {{}} \cup {{p} : p \in Dates}]
       /\ db \in [AcctTables(shape[1], shape[2]) ->
                    {<<>>} \cup {<<d>> : d \in Dates}]
       /\ Constructed([i \in 1..shape[1] |-> TInsertable])
       /\ auth = [k \in 1..shape[2] |-> k]
  /\ insertCount = 0
  /\ reqCount = 0
  /\ fetchLimit = MaxLimit
  /\ conf = <<>>
  /\ pc = "mu_start"
  /\ runNo = 1
  /\ hookState = <<>>
  /\ hookCalls = <<>>
  /\ hookArgs = <<>>
  /\ runStartRows = RowsHeld
  /\ prevOutcome = "none"
  /\ aborted = NoAbort

AccountsNext ==
  \/ MuStart
  \/ MuCallAccount
  \/ AcctEnter
  \/ AcctDetect
  \/ DetectThrow
  \/ AcctCheckDone
  \/ AcctBeginPass
  \/ PsIterate
  \/ PsThrow
  \/ PassFailed
  \/ AcctAfterPass
  \/ AcctReturn

SpecAccounts == AccountsInit /\ [][AccountsNext]_vars

(***************************************************************************)
(* SpecPublic: insertNewPublicDataToDb over one configurable public schema *)
(* with one or two configured symbols, for any configured start, any       *)
(* stored rows and any newest remote date of a symbol, the date 0          *)
(* included.                                                               *)
(***************************************************************************)
\* The rows a symbol's table can hold before the pass: none, one, or two
\* of different dates.
StoredBefore ==
  {<<>>} \cup {<<d>> : d \in Dates} \cup
  {pair \in Dates \X Dates : pair[1] > pair[2]}

PublicInit ==
  /\ CoParked
  /\ SpParked
  /\ RqParked
  /\ PsParked
  /\ gwMode \in {"remote", "foreign"}
  /\ \/ /\ \E start \in Dates : conf = <<<<1, start>>>>
        /\ remote \in [{Table(1, 1)} -> {{}} \cup {{p} : p \in Dates}]
        /\ db \in [{Table(1, 1)} -> StoredBefore]
     \/ /\ \E s1 \in 0..1, s2 \in 0..1 : conf = <<<<1, s1>>, <<2, s2>>>>
        /\ remote \in [{Table(1, 1), Table(1, 2)} -> {{}, {MaxDate}}]
        /\ db \in [{Table(1, 1), Table(1, 2)} -> {<<>>, <<1>>}]
  /\ Constructed(<<TPubInsertable>>)
  /\ insertCount = 0
  /\ reqCount = 0
  /\ fetchLimit = MaxLimit
  /\ pc = "pub_check"
  /\ runNo = 1
  /\ auth = <<>>
  /\ hookState = <<>>
  /\ hookCalls = <<>>
  /\ hookArgs = <<>>
  /\ runStartRows = RowsHeld
  /\ prevOutcome = "none"
  /\ aborted = NoAbort

PublicNext ==
  \/ PubConfBegin
  \/ PubConfSymbol
  \/ DetectThrow
  \/ PubConfDone
  \/ PubCheckDone
  \/ PubBeginPass
  \/ PsIterate
  \/ PsThrow
  \/ PassFailed
  \/ PubAfterPass
  \/ PubItemDone
  \/ PubReturn

SpecPublic == PublicInit /\ [][PublicNext]_vars

(***************************************************************************)
(* SpecPublicTwice: the same, with insertNewPublicDataToDb called again on *)
(* the same orchestrator once it has returned.                             *)
(***************************************************************************)
\* insertNewPublicDataToDb has returned and is called once more on this
\* orchestrator: checkNewPublicData takes `new Map(this._methodCollMap)`
\* (source lines 205-206, 721-723), a new Map over the same schema objects.
PubAgain ==
  /\ pc = "hooks"
  /\ runNo < MaxRuns
  /\ runNo' = runNo + 1
  /\ chkIdx' = 0
  /\ passLog' = <<>>
  /\ pc' = "pub_check"
  /\ UNCHANGED <<auth, authIdx, muCount, muProgress, schemas, curAuth,
                 symIdx, mcm, mcmIdx, subCount, subProgress, prevProgress,
                 pubStep, startIdx, progressLog, hookState, hookCalls,
                 hookArgs, ghostVars>>
  /\ UNCHANGED <<spVars, coVars, rqVars, psVars, stVars>>

PublicTwiceNext ==
  \/ PubConfBegin
  \/ PubConfSymbol
  \/ DetectThrow
  \/ PubConfDone
  \/ PubCheckDone
  \/ PubBeginPass
  \/ PsIterate
  \/ PsThrow
  \/ PassFailed
  \/ PubAfterPass
  \/ PubItemDone
  \/ PubReturn
  \/ PubAgain

SpecPublicTwice == PublicInit /\ [][PublicTwiceNext]_vars

(***************************************************************************)
(* SpecConcurrent: insertNewDataToDb called for two credentials on one     *)
(* orchestrator, the second call made while the first is suspended. A call *)
(* runs from one gateway call to the next without suspension in between.   *)
(***************************************************************************)
\* The locals of the run that the calls leave alone.
orButSchemas ==
  <<pc, runNo, auth, authIdx, muCount, muProgress, curAuth, chkIdx, symIdx,
    mcm, mcmIdx, subCount, subProgress, prevProgress, pubStep, startIdx,
    progressLog, passLog, hookState, hookCalls, hookArgs, runStartRows,
    prevOutcome, aborted>>

\* The fetch pass a call begins for schema i: `item.start` is read from the
\* schema object when the pass begins (source line 182).
Begun(map, i, a) ==
  [schema |-> i, start |-> StartArg(map[i].start), table |-> Table(i, a)]

\* insertNewDataToDb(auth) is called (source lines 165-175): checkNewData
\* reaches the first schema, clears its hasNewData (line 329) and waits.
CoCall ==
  /\ \E a \in DOMAIN coPc :
       /\ coPc[a] = "idle"
       /\ coPc' = [coPc EXCEPT ![a] = "check"]
  /\ schemas' = [schemas EXCEPT ![1].hasNewData = FALSE]
  /\ UNCHANGED <<coChkIdx, coMcm, coMcmIdx, coOwn, coFetched>>
  /\ UNCHANGED <<orButSchemas, spVars, rqVars, psVars, stVars>>

\* The probe of a call's detector returns (source lines 345-364): the
\* decision is written into the schema object; then, without suspension,
\* either the next schema's hasNewData is cleared and its probe awaited, or
\* the map is filtered (line 202) and the first fetch pass begins (lines
\* 181-184), or the call returns.
CoDetect ==
  /\ \E a \in DOMAIN coPc :
       /\ coPc[a] = "check"
       /\ LET i == coChkIdx[a] + 1
              t == Table(i, a)
          IN  \E probe \in ProbeResponses(t) :
                LET decided == [schemas EXCEPT
                                  ![i] = DetectItem(@, LastElemFromDb(t), probe)]
                    kept == filterMethodCollMap(decided, FALSE)
                IN  /\ coOwn' = [coOwn EXCEPT ![a] = Append(@, decided[i])]
                    /\ coChkIdx' = [coChkIdx EXCEPT ![a] = i]
                    /\ IF i < Len(schemas)
                         THEN /\ schemas' = [decided EXCEPT
                                               ![i + 1].hasNewData = FALSE]
                              /\ UNCHANGED <<coPc, coMcm, coMcmIdx, coFetched>>
                         ELSE /\ schemas' = decided
                              /\ coMcm' = [coMcm EXCEPT ![a] = kept]
                              /\ coMcmIdx' = [coMcmIdx EXCEPT ![a] = 0]
                              /\ IF kept = <<>>
                                   THEN /\ coPc' = [coPc EXCEPT ![a] = "returned"]
                                        /\ UNCHANGED coFetched
                                   ELSE /\ coPc' = [coPc EXCEPT ![a] = "pass"]
                                        /\ coFetched' =
                                             [coFetched EXCEPT ![a] =
                                                Append(@, Begun(decided, kept[1], a))]
  /\ reqCount' = reqCount + 1
  /\ UNCHANGED <<db, insertCount, gwVars>>
  /\ UNCHANGED <<orButSchemas, spVars, rqVars, psVars>>

\* The fetch pass of a call returns (source lines 184-192), the gateway
\* having answered with one last page of the remote rows from start on,
\* which is inserted under the credential of the call (lines 600-604); then
\* the next pass begins or the call returns.
CoPassDone ==
  /\ \E a \in DOMAIN coPc :
       /\ coPc[a] = "pass"
       /\ LET f == coFetched[a][Len(coFetched[a])]
              page == Descending({d \in remote[f.table] : d >= f.start})
              next == coMcmIdx[a] + 1
          IN  /\ IF page = <<>> \/ IsMalformedLast(page)
                   THEN UNCHANGED <<db, insertCount>>
                   ELSE /\ db' = [db EXCEPT ![f.table] =
                                    @ \o RowsToInsert(page, f.start, fetchLimit, 0)]
                        /\ insertCount' = insertCount + 1
              /\ coMcmIdx' = [coMcmIdx EXCEPT ![a] = next]
              /\ IF next < Len(coMcm[a])
                   THEN /\ coFetched' =
                             [coFetched EXCEPT ![a] =
                                Append(@, Begun(schemas, coMcm[a][next + 1], a))]
                        /\ UNCHANGED coPc
                   ELSE /\ coPc' = [coPc EXCEPT ![a] = "returned"]
                        /\ UNCHANGED coFetched
  /\ reqCount' = reqCount + 1
  /\ UNCHANGED <<coChkIdx, coMcm, coOwn, gwVars>>
  /\ UNCHANGED <<orVars, spVars, rqVars, psVars>>

ConcurrentInit ==
  /\ SpParked
  /\ RqParked
  /\ PsParked
  /\ gwMode = "remote"
  /\ remote \in [AcctTables(2, 2) -> {{}, {MaxDate}}]
  /\ db \in [AcctTables(2, 2) -> {<<>>, <<1>>, <<2>>}]
  /\ Constructed(<<TInsertable, TInsertable>>)
  /\ auth = <<1, 2>>
  /\ coPc = <<"idle", "idle">>
  /\ coChkIdx = <<0, 0>>
  /\ coMcm = <<<<>>, <<>>>>
  /\ coMcmIdx = <<0, 0>>
  /\ coOwn = <<<<>>, <<>>>>
  /\ coFetched = <<<<>>, <<>>>>
  /\ insertCount = 0
  /\ reqCount = 0
  /\ fetchLimit = MaxLimit
  /\ conf = <<>>
  /\ pc = "calls"
  /\ runNo = 1
  /\ hookState = <<>>
  /\ hookCalls = <<>>
  /\ hookArgs = <<>>
  /\ runStartRows = RowsHeld
  /\ prevOutcome = "none"
  /\ aborted = NoAbort

ConcurrentNext ==
  \/ CoCall
  \/ CoDetect
  \/ CoPassDone

SpecConcurrent == ConcurrentInit /\ [][ConcurrentNext]_vars

(***************************************************************************)
(* SpecRecon: runs over one updatable public schema whose table holds any  *)
(* rows beforehand, against a gateway that lists what the remote holds.    *)
(***************************************************************************)
MaxIds == 3

RECURSIVE Orderings(_)
\* The duplicate-free sequences over the members of S.
Orderings(S) ==
  IF S = {} THEN {<<>>}
  ELSE UNION {{<<x>> \o o : o \in Orderings(S \ {x})} : x \in S}

RefTable == Table(1, 0)

ReconInit ==
  /\ CoParked
  /\ SpParked
  /\ RqParked
  /\ PsParked
  /\ gwMode = "remote"
  /\ \E held \in SUBSET (1..MaxIds) : remote = (RefTable :> held)
  /\ \E had \in SUBSET (1..MaxIds) : \E o \in Orderings(had) :
       db = (RefTable :> [k \in DOMAIN o |-> Stored(o[k], 0)])
  /\ insertCount = 0
  /\ reqCount = 0
  /\ fetchLimit = 1
  /\ conf = <<>>
  /\ \E type \in {TPubUpdArr, TPubUpdArrObj} : Constructed(<<type>>)
  /\ pc = "mu_start"
  /\ runNo = 1
  /\ auth = <<1>>
  /\ hookState = <<>>
  /\ hookCalls = <<>>
  /\ hookArgs = <<>>
  /\ runStartRows = RowsHeld
  /\ prevOutcome = "none"
  /\ aborted = NoAbort

ReconNext ==
  \/ MuStart
  \/ MuCallAccount
  \/ MuCallPublic
  \/ AcctEnter
  \/ AcctCheckSkip
  \/ AcctCheckDone
  \/ AcctReturn
  \/ PubCheckSkip
  \/ PubCheckDone
  \/ PubUpdate
  \/ PubUpdateThrow
  \/ PubItemDone
  \/ PubReturn
  \/ HooksNone
  \/ Final
  \/ Rerun

SpecRecon == ReconInit /\ [][ReconNext]_vars

(***************************************************************************)
(* Claims                                                                  *)
(***************************************************************************)

AllAre(log, kind) == \A i \in 1..Len(log) : log[i] = kind

\* C1: a logical request whose every gateway attempt raises a rate-limited
\* error is given up after exactly 3 attempts, each retry preceded by the long
\* delay, and surfaces that error; one whose every attempt raises
\* nonce-too-old is given up after exactly 21 attempts. Before these counts
\* the request is still being retried.
C1_RetryBound ==
  /\ (hasMethod /\ rqLog # <<>> /\ AllAre(rqLog, "rate")) =>
       /\ Len(rqLog) <= MaxRateLimitRetries + 1
       /\ (Len(rqLog) = 3) = (rqPc = "thrown")
       /\ rqPc \in {"thrown", "delay", "request"}
       /\ rqPc = "thrown" => rqErr = "rate" /\ delayLog = <<ms, ms>>
       /\ rqPc = "request" => Len(delayLog) = Len(rqLog)
  /\ (hasMethod /\ rqLog # <<>> /\ AllAre(rqLog, "nonce")) =>
       /\ Len(rqLog) <= MaxNonceSmallRetries + 1
       /\ (Len(rqLog) = 21) = (rqPc = "thrown")
       /\ rqPc \in {"thrown", "delay", "request"}
       /\ rqPc = "thrown" => rqErr = "nonce" /\ Len(delayLog) = 20
       /\ rqPc = "request" => Len(delayLog) = Len(rqLog)

C1_Witness ==
  /\ rqPc = "thrown"
  /\ rqLog = <<"rate", "rate", "rate">>
  /\ rqErr = "rate"

\* The response that the latest iteration of the pass received is a page whose
\* oldest (last) record carries an integer date at or before the start.
LastRecordAtOrBeforeStart ==
  /\ psResp.res # NotArray
  /\ psResp.res # <<>>
  /\ psResp.res[Len(psResp.res)] # NoDate
  /\ psResp.res[Len(psResp.res)] <= psStart

\* C2: every row a pass has persisted has a date at or after the start of the
\* pass; and after a page whose oldest record is dated at or before the
\* start, the rows written are records of that page dated at or after the
\* start (its newest records, in page order) and the pass has ended.
C2_BoundaryClipping ==
  /\ \A i \in 1..Len(db[TheTable]) :
        db[TheTable][i] # NoDate /\ db[TheTable][i] >= psStart
  /\ (reqCount > 0 /\ psPc # "thrown" /\ LastRecordAtOrBeforeStart) =>
        /\ psPc = "done"
        /\ psWrite # NoWrite =>
              /\ Len(psWrite) <= Len(psResp.res)
              /\ psWrite = SubSeq(psResp.res, 1, Len(psWrite))
              /\ \A i \in 1..Len(psWrite) : psWrite[i] >= psStart

\* A page reaching back before the start was clipped and its newer part written.
C2_Witness ==
  /\ psPc = "done"
  /\ LastRecordAtOrBeforeStart
  /\ psResp.res[Len(psResp.res)] < psStart
  /\ psWrite # NoWrite
  /\ Len(psWrite) >= 1
  /\ Len(psWrite) < Len(psResp.res)
  /\ Truthy(psResp.nextPage)
  /\ Len(db[TheTable]) < psLimit

\* C3: at every moment of a pass, the rows it has handed to the DAO number at
\* most the record cap of the pass, whatever pages the gateway returns.
C3_CapNeverExceeded ==
  /\ Len(db[TheTable]) <= psLimit
  /\ count = Len(db[TheTable])

\* The last page had to be truncated to fit the cap.
C3_Witness ==
  /\ psPc = "done"
  /\ psWrite # NoWrite
  /\ Len(psWrite) >= 1
  /\ Len(psWrite) < Len(psResp.res)
  /\ ~LastRecordAtOrBeforeStart
  /\ Len(db[TheTable]) = psLimit
  /\ insertCount >= 2

(***************************************************************************)
(* Claims about runs against a remote data set (SpecSync)                  *)
(***************************************************************************)
\* The remote records the pass in progress was asked for, and the rows it
\* has inserted so far.
WantedByPass == {d \in remote[psKey] : psStart <= d /\ d <= psArgsEnd}
WrittenByPass ==
  SubSeq(db[psKey], Len(db[psKey]) - count + 1, Len(db[psKey]))

Copies(table, d) == Cardinality({i \in 1..Len(db[table]) : db[table][i] = d})

\* C5: a run follows one whose fetch pass for an account-scoped schema was
\* abandoned (a throw or a stop of the process) after it had inserted at
\* least one page and before it reached its start; the remote is unchanged
\* and the cap is out of reach.
\* When the second run has returned, storage holds every remote record of
\* the abandoned pass's window exactly once.
C5_ResumeLosesNoData ==
  (/\ runNo = 2
   /\ pc = "returned"
   /\ prevOutcome \in {"crashed", "failed"}
   /\ aborted # NoAbort
   /\ schemas[aborted.table[1]].type = TInsertable
   /\ fetchLimit > Cardinality(remote[aborted.table])) =>
     \A d \in remote[aborted.table] :
       (aborted.start <= d /\ d <= aborted.end) => Copies(aborted.table, d) = 1

StartsBeforeStored(i) ==
  \E k \in DOMAIN conf :
    \/ FirstElemFromDb(Table(i, conf[k][1])) = Null
    \/ /\ Truthy(conf[k][2])
       /\ conf[k][2] < FirstElemFromDb(Table(i, conf[k][1]))

Numbers(log) == SelectSeq(log, LAMBDA v : v # Unauthorized)
NonDecreasing(q) == \A i \in 1..Len(q) : \A j \in i..Len(q) : q[i] <= q[j]
HasValidAccount == ~NoAccounts(auth) /\ \E k \in DOMAIN auth : auth[k] >= 1
Times(log, v) == Cardinality({i \in 1..Len(log) : log[i] = v})

\* C7 as stated: in a run with at least one valid account the published
\* values are non-decreasing, and the last one is 100 when the run returns.
C7_ProgressNonDecreasing ==
  HasValidAccount =>
    /\ NonDecreasing(Numbers(progressLog))
    /\ pc = "returned" => progressLog[Len(progressLog)] = 100

\* C7, amended: in a run with at least one valid account the values one
\* account pass publishes are non-decreasing, so are those of the public
\* pass; the whole sequence is non-decreasing when the account set has one
\* entry; and when the run returns the last value is 100, published once.
C7_ProgressPerPass ==
  HasValidAccount =>
    /\ NonDecreasing(Numbers(passLog))
    /\ Len(auth) = 1 => NonDecreasing(progressLog)
    /\ pc = "returned" =>
         /\ progressLog[Len(progressLog)] = 100
         /\ Times(progressLog, 100) = 1

\* A run over two accounts has returned after it published a value below
\* the one before it.
C7_Witness ==
  /\ pc = "returned"
  /\ Len(auth) = 2
  /\ auth[1] = 1
  /\ auth[2] = 2
  /\ progressLog[Len(progressLog)] = 100
  /\ \E i \in 1..(Len(progressLog) - 1) : progressLog[i + 1] < progressLog[i]

HooksUntouched ==
  \A h \in DOMAIN hookState : hookState[h] = "idle" /\ hookCalls[h] = 0

\* C8: with an account set that is missing, no Map or empty, the run
\* publishes the unauthorized marker and nothing else and returns; it makes
\* no gateway request, writes nothing, calls no hook, and does not fail.
C8_NoAccountsOutcome ==
  (auth = NoAuth \/ auth = NotMap \/ auth = <<>>) =>
    /\ pc \in {"mu_start", "returned"}
    /\ pc = "mu_start" => progressLog = <<>>
    /\ pc = "returned" => progressLog = <<Unauthorized>>
    /\ reqCount = 0
    /\ insertCount = 0
    /\ RowsHeld = 0
    /\ HooksUntouched

\* The run of an orchestrator with two hooks has returned on a value of
\* this._auth that is no Map.
C8_Witness ==
  /\ auth = NotMap
  /\ pc = "returned"
  /\ progressLog = <<Unauthorized>>
  /\ Len(hookState) = 2

BadEntriesAnswered ==
  Cardinality({k \in 1..authIdx : auth[k] = BadKeys})
    - (IF pc = "acct_enter" /\ curAuth = BadKeys THEN 1 ELSE 0)

HooksCalled == \E h \in DOMAIN hookCalls : hookCalls[h] > 0

\* C10: a hook is called at most once, with the orchestrator, and from the
\* first call of a hook on nothing is requested or written; 100 is
\* published at most once, as the last value, by a run that returns, when
\* every hook has been called once and has resolved; a run over an account
\* set that returns has published it.
C10_HooksThenFinal ==
  /\ [](/\ \A h \in DOMAIN hookCalls :
             /\ hookCalls[h] <= 1
             /\ hookCalls[h] = 1 => hookArgs[h] = "this"
        /\ HooksCalled => pc \in {"hooks_wait", "final", "returned", "failed"}
        /\ 100 \in Range(progressLog) =>
             /\ pc = "returned"
             /\ progressLog[Len(progressLog)] = 100
             /\ Times(progressLog, 100) = 1
             /\ \A h \in DOMAIN hookState :
                  hookState[h] = "resolved" /\ hookCalls[h] = 1
        /\ (pc = "returned" /\ ~NoAccounts(auth)) => 100 \in Range(progressLog))
  /\ [][HooksCalled =>
          /\ db' = db
          /\ insertCount' = insertCount
          /\ reqCount' = reqCount]_vars

\* A run with two hooks has returned after it wrote to storage.
C10_Witness ==
  /\ pc = "returned"
  /\ Len(hookState) = 2
  /\ \A h \in DOMAIN hookState : hookState[h] = "resolved" /\ hookCalls[h] = 1
  /\ insertCount >= 1
  /\ RowsHeld >= 1
  /\ progressLog[Len(progressLog)] = 100

\* ---------------------------------------------------------------------
\* C11
\* ---------------------------------------------------------------------

HookFailed ==
  \E h \in DOMAIN hookState : hookState[h] \in {"rejected", "threw"}

\* C11: once a post-sync hook has rejected or thrown, the run can only end
\* as failed: it is waiting for the join or has failed, the join is able to
\* reject, 100 is not in the published values, and no later step changes
\* storage or issues a request.
C11_HookRejectionFailsRun ==
  /\ [](HookFailed =>
          /\ pc \in {"hooks_wait", "failed"}
          /\ pc = "hooks_wait" => ENABLED HooksRejected
          /\ 100 \notin Range(progressLog))
  /\ [][HookFailed =>
          /\ db' = db
          /\ insertCount' = insertCount
          /\ reqCount' = reqCount
          /\ pc' \in {"hooks_wait", "failed"}]_vars

\* A run that wrote to storage has failed on a rejected hook while another
\* hook resolved.
C11_Witness ==
  /\ pc = "failed"
  /\ Len(hookState) = 2
  /\ \E h \in DOMAIN hookState : hookState[h] = "rejected"
  /\ \E h \in DOMAIN hookState : hookState[h] = "resolved"
  /\ RowsHeld >= 1
  /\ 100 \notin Range(progressLog)

\* ---------------------------------------------------------------------
\* C12
\* ---------------------------------------------------------------------

\* _getDataFromApi has thrown in a fetch pass, a probe or a listing request.
GatewayFailed ==
  \/ psPc = "thrown"
  \/ pc = "failed" /\ ~HooksCalled

\* C12: after a gateway error has left a fetch pass, the run only fails:
\* no hook is called, 100 is not published, and no later step issues a
\* request, writes to storage, publishes progress, or moves on to another
\* schema, another account or the public pass.
C12_GatewayErrorAbortsRun ==
  /\ [](GatewayFailed =>
          /\ pc \in {"acct_pass", "pub_pass", "failed"}
          /\ ~HooksCalled
          /\ 100 \notin Range(progressLog))
  /\ [][GatewayFailed =>
          /\ pc' = "failed"
          /\ reqCount' = reqCount
          /\ db' = db
          /\ insertCount' = insertCount
          /\ progressLog' = progressLog
          /\ passLog' = passLog
          /\ authIdx' = authIdx
          /\ mcmIdx' = mcmIdx
          /\ hookCalls' = hookCalls]_vars

\* With two accounts, a pass threw before the last account was done and
\* after an earlier pass had persisted a page; the run has failed with the
\* page in storage.
C12_Witness ==
  /\ pc = "failed"
  /\ psPc = "thrown"
  /\ RowsHeld >= 1
  /\ Len(auth) = 2
  /\ authIdx < Len(auth)
  /\ reqCount >= 2

\* ---------------------------------------------------------------------
\* C13
\* ---------------------------------------------------------------------

\* C13: an error that is neither rate-limited nor nonce-too-small is the
\* last attempt of its logical request: it was attempted once, the request
\* has thrown that very error, no delay was started for it (the delays
\* that were awaited are those of the retried failures before it), and
\* this holds whatever failures were retried before.
C13_OtherErrorNotRetried ==
  "other" \in Range(rqLog) =>
    /\ rqLog[Len(rqLog)] = "other"
    /\ Times(rqLog, "other") = 1
    /\ rqPc = "thrown"
    /\ rqErr = "other"
    /\ delayMs = 0
    /\ Len(delayLog) = Len(rqLog) - 1
    /\ ~ENABLED RetryNext

\* The other error came after a retried rate-limit failure and a retried
\* nonce failure.
C13_Witness ==
  /\ rqPc = "thrown"
  /\ rqErr = "other"
  /\ "rate" \in Range(rqLog)
  /\ "nonce" \in Range(rqLog)
  /\ rqLog[Len(rqLog)] = "other"
  /\ Len(delayLog) = Len(rqLog) - 1

\* ---------------------------------------------------------------------
\* C14
\* ---------------------------------------------------------------------

AcctPositions == {"acct_enter", "acct_check", "acct_loop", "acct_pass"}

PubPositions == {"pub_check", "pub_conf", "pub_loop", "pub_pass"}

\* The accounts whose pass has been entered so far.
AccountsEntered == {auth[k] : k \in 1..authIdx}

TablesHeld == {t \in DOMAIN db : db[t] # <<>>}

\* The account a table belongs to; 0 for the tables of a public schema,
\* which are keyed by symbol.
OwnerOf(t) == IF IsPublicType(schemas[t[1]]) THEN 0 ELSE t[2]

\* C14: up to the hook phase the run is one flow of control.  A fetch pass
\* is active only while the orchestrator waits for it, on a table of the
\* current account (or a public table in the public pass); every step
\* issues at most one request and at most one write, for the account whose
\* pass is running; the next account is entered only from the account loop,
\* with no pass active; rows are held only for accounts entered so far, and
\* the public pass and rows of public tables come only after the last
\* account has been entered and left.
C14_SingleFlowOfControl ==
  /\ [](/\ psPc \in {"fetch", "done"} => pc \in {"acct_pass", "pub_pass"}
        /\ pc = "acct_pass" =>
             /\ psPc # "parked"
             /\ OwnerOf(psKey) = curAuth
             /\ curAuth = auth[authIdx]
        /\ pc = "pub_pass" => psPc # "parked" /\ OwnerOf(psKey) = 0
        /\ pc \in PubPositions => authIdx = Len(auth)
        /\ \A t \in TablesHeld :
             IF OwnerOf(t) = 0
               THEN authIdx = Len(auth) /\ pc \notin AcctPositions
               ELSE OwnerOf(t) \in AccountsEntered)
  /\ [][/\ (db' # db \/ reqCount' # reqCount) =>
             /\ pc \in AcctPositions \cup PubPositions
             /\ reqCount' - reqCount <= 1
             /\ insertCount' - insertCount <= 1
             /\ \A t \in DOMAIN db :
                  db'[t] # db[t] =>
                    OwnerOf(t) = (IF pc \in AcctPositions THEN curAuth ELSE 0)
        /\ authIdx' # authIdx =>
             /\ authIdx' = authIdx + 1
             /\ pc = "mu_loop"
             /\ psPc = "parked"]_vars

\* The public pass is fetching after the passes of two different accounts
\* have both written.
C14_Witness ==
  /\ pc = "pub_pass"
  /\ psPc = "fetch"
  /\ Len(auth) = 2
  /\ auth[1] # auth[2]
  /\ \A k \in 1..2 : \E t \in TablesHeld : OwnerOf(t) = auth[k]
  /\ reqCount >= 4

\* ---------------------------------------------------------------------
\* C15
\* ---------------------------------------------------------------------

\* A reconciliation pass of the current run has just ended.
AfterReconciliation == pc = "pub_loop" /\ pubStep = "updated"

\* C15: after a reconciliation pass the identity values held by the table
\* are exactly those of the remote listing, whatever the listing, the
\* empty one included; the rows that were held and are listed are the rows
\* as they were, ahead of the inserted ones.
C15_StorageEqualsListing ==
  AfterReconciliation =>
    /\ Ids(db[RefTable]) = remote[RefTable]
    /\ \A k \in DOMAIN db[RefTable] :
         db[RefTable][k][2] = runNo =>
           \A j \in k..Len(db[RefTable]) : db[RefTable][j][2] = runNo

\* The same for a listing that holds at least one row; this one holds.
NonEmptyListingReconciled ==
  (AfterReconciliation /\ remote[RefTable] # {}) => C15_StorageEqualsListing

\* ---------------------------------------------------------------------
\* C16
\* ---------------------------------------------------------------------

\* C16: a reconciliation pass that follows a completed run against the
\* same remote listing writes no row and removes none: the table holds as
\* many rows as when the run started, none of them written by this run,
\* and no identity value twice.
C16_ReconciliationIdempotent ==
  (runNo = 2 /\ prevOutcome = "returned" /\ AfterReconciliation) =>
    /\ \A k \in DOMAIN db[RefTable] : db[RefTable][k][2] # runNo
    /\ Len(db[RefTable]) = runStartRows
    /\ Cardinality(Ids(db[RefTable])) = Len(db[RefTable])

\* The second pass has ended over a table that holds a row from before the
\* first run and a row the first run inserted.
C16_Witness ==
  /\ runNo = 2
  /\ prevOutcome = "returned"
  /\ AfterReconciliation
  /\ \E k \in DOMAIN db[RefTable] : db[RefTable][k][2] = 0
  /\ \E k \in DOMAIN db[RefTable] : db[RefTable][k][2] = 1
  /\ Ids(db[RefTable]) = remote[RefTable]

\* ---------------------------------------------------------------------
\* C17
\* ---------------------------------------------------------------------

RECURSIVE Flatten(_)
\* The records of the pages, in order.
Flatten(pages) ==
  IF pages = <<>> THEN <<>> ELSE Head(pages) \o Flatten(Tail(pages))

\* The gateway has answered every request of the pass but the latest with a
\* non-empty page and a cursor, and the latest with an empty page and no
\* cursor.
PagesThenEmpty ==
  /\ reqCount >= 1
  /\ psResp = [res |-> <<>>, nextPage |-> Null]
  /\ Len(psPages) = reqCount - 1

\* C17: in a pass over an empty table from start 0 that was answered with
\* k non-empty pages with a cursor and then an empty page without one, the
\* table holds the records of the k pages in the order they were fetched,
\* written by k inserts, after k + 1 requests, and the pass has ended: no
\* further request can be issued.
C17_PagesThenEmptyPage ==
  (psStart = 0 /\ PagesThenEmpty) =>
    /\ db[TheTable] = Flatten(psPages)
    /\ insertCount = Len(psPages)
    /\ count = Len(Flatten(psPages))
    /\ reqCount = Len(psPages) + 1
    /\ psPc = "done"
    /\ ~ENABLED PassNext

\* Two pages, then the empty page.
C17_Witness ==
  /\ psStart = 0
  /\ PagesThenEmpty
  /\ Len(psPages) = 2
  /\ reqCount = 3
  /\ insertCount = 2
  /\ Len(db[TheTable]) = 2

\* ---------------------------------------------------------------------
\* C18
\* ---------------------------------------------------------------------

\* The observer registered last, if any.
LatestRegistered == IF regLog = <<>> THEN NoHandler ELSE regLog[Len(regLog)]

\* C18: the event of a published value is emitted only when the observer
\* called for it has resolved (or none was registered); the events are the
\* published values in the order of their publication; a value whose
\* observer is pending or has rejected is the latest one and has no event,
\* and after a rejection setProgress has thrown and nothing more is
\* published; the observer called for a value is the one registered last
\* at the time of the call.
C18_ObserverBeforeEvent ==
  /\ [](/\ \A i \in DOMAIN pubLog :
             /\ pubLog[i].emitted <=> pubLog[i].outcome \in {"resolved", "none"}
             /\ pubLog[i].outcome = "none" <=> pubLog[i].observer = NoHandler
             /\ pubLog[i].outcome \in {"pending", "rejected"} => i = Len(pubLog)
             /\ pubLog[i].outcome = "pending" <=> (spPc = "handler" /\ i = Len(pubLog))
             /\ pubLog[i].outcome = "rejected" <=> (spPc = "thrown" /\ i = Len(pubLog))
        /\ Len(emitLog) <= Len(pubLog)
        /\ \A k \in DOMAIN emitLog :
             pubLog[k].emitted /\ emitLog[k] = pubLog[k].value
        /\ \A i \in DOMAIN pubLog : pubLog[i].emitted => i <= Len(emitLog)
        /\ spPc = "thrown" => ~ENABLED ProgressNext)
  /\ [][Len(pubLog') > Len(pubLog) =>
          pubLog'[Len(pubLog')].observer = LatestRegistered]_vars

\* Three values were published: the first with no observer, the second
\* with the first observer, which resolved, the third with the observer
\* registered after it, which rejected; two events were emitted.
C18_Witness ==
  /\ Len(pubLog) = 3
  /\ regLog = <<1, 2>>
  /\ pubLog[1].observer = NoHandler
  /\ pubLog[2].observer = 1 /\ pubLog[2].outcome = "resolved"
  /\ pubLog[3].observer = 2 /\ pubLog[3].outcome = "rejected"
  /\ Len(emitLog) = 2
  /\ spPc = "thrown"

\* ---------------------------------------------------------------------
\* C19
\* ---------------------------------------------------------------------

\* The latest response was an empty page with an integer cursor.
EmptyWithCursor(resp) ==
  resp.res = <<>> /\ Truthy(resp.nextPage) /\ IsInteger(resp.nextPage)

\* The pass issues a request in this step.
Requests == psPc = "fetch" /\ reqCount' = reqCount + 1

\* The request that follows an empty page with a cursor is the one retry:
\* a second such page ends the pass, and any other page restores the
\* allowance.
OneRetryThenExhausted ==
  [][Requests =>
       /\ (serialRequestsCount = 1 /\ psPc' # "thrown"
             /\ EmptyWithCursor(psResp')) => psPc' = "done"
       /\ (serialRequestsCount = 0 /\ psPc' # "thrown"
             /\ EmptyWithCursor(psResp')) =>
              psPc' = "fetch" /\ serialRequestsCount' = 1
       /\ (psPc' # "thrown" /\ ~EmptyWithCursor(psResp')) =>
              serialRequestsCount' = 0]_vars

\* C19: the request that follows an empty page with an integer cursor has
\* the window of the request that was answered with that page (the same
\* start and the same end), and it is the only retry.
C19_RetrySameWindow ==
  /\ [][(Requests /\ serialRequestsCount = 1) =>
          /\ psReq'.start = psReq.start
          /\ psReq'.end = psReq.end]_vars
  /\ OneRetryThenExhausted

\* ---------------------------------------------------------------------
\* C20
\* ---------------------------------------------------------------------

PassEnded == psPc \in {"done", "thrown"}

\* C20: when every gateway call returns, a fetch pass ends: each iteration
\* ends the pass, uses the one retry of an empty page, or persists at
\* least one record, the records persisted stay within the cap, and the
\* pass makes at most 2 * cap + 2 requests.
C20_PassTerminates ==
  /\ [][Requests =>
          \/ psPc' \in {"done", "thrown"}
          \/ serialRequestsCount = 0 /\ serialRequestsCount' = 1
          \/ count' > count /\ count' <= psLimit]_vars
  /\ [](reqCount <= 2 * psLimit + 2)
  /\ <>PassEnded

\* A pass with cap 2 has ended after four requests: each of its two
\* records came after a retried empty page.
C20_Witness ==
  /\ psPc = "done"
  /\ psLimit = 2
  /\ reqCount = 4
  /\ insertCount = 2
  /\ count = 2

\* ---------------------------------------------------------------------
\* C21
\* ---------------------------------------------------------------------

\* The newest remote date of the table, as the probe reports it.
ProbeOf(table) == IF remote[table] = {} THEN Null ELSE Max(remote[table])

\* The schemas the detector of the running account pass has been through.
Detected == IF pc = "acct_check" THEN 1..chkIdx ELSE {}

\* The decision the detector is to take for newest stored date d and
\* newest remote date p.
DecidedAsStated(schema, d, p) ==
  /\ p = Null => ~schema.hasNewData
  /\ (p # Null /\ d = Null) => schema.hasNewData /\ schema.start = 0
  /\ (p # Null /\ d # Null /\ p > d) =>
       schema.hasNewData /\ schema.start = d + 1
  /\ (p # Null /\ d # Null /\ p <= d) => ~schema.hasNewData

\* The detector of the first account has written nothing and has issued
\* one probe per schema.
OneProbeNoWrite ==
  (pc = "acct_check" /\ authIdx = 1) =>
    /\ reqCount = chkIdx
    /\ insertCount = 0
    /\ RowsHeld = runStartRows

\* C21: for every newest stored date d >= 0 and every probe p the
\* detector leaves the schema with: no new data for an empty probe; new
\* data from 0 for an empty table; new data from d + 1 when p > d; no new
\* data when p <= d.  It has written nothing and has issued one probe per
\* schema.
C21_DetectorDecision ==
  /\ \A i \in Detected :
       DecidedAsStated(schemas[i], LastElemFromDb(Table(i, curAuth)),
                       ProbeOf(Table(i, curAuth)))
  /\ OneProbeNoWrite

\* The same for newest stored dates d >= 1; this one holds.
DetectorDecisionFromOne ==
  /\ \A i \in Detected :
       LastElemFromDb(Table(i, curAuth)) # 0 =>
         DecidedAsStated(schemas[i], LastElemFromDb(Table(i, curAuth)),
                         ProbeOf(Table(i, curAuth)))
  /\ OneProbeNoWrite

\* The gateway holds a record newer than the newest stored one of the table.
ProbeNewer(table) ==
  /\ ProbeOf(table) # Null
  /\ \/ LastElemFromDb(table) = Null
     \/ ProbeOf(table) > LastElemFromDb(table)

\* A step of an account pass that issues a request or changes storage
\* outside the detector.
FetchesOrStores ==
  /\ pc \in {"acct_enter", "acct_loop", "acct_pass"}
  /\ reqCount' # reqCount \/ db' # db \/ insertCount' # insertCount

\* C22: in an account pass a fetch pass begins only for a schema the
\* detector of this pass left with hasNewData, which it does only where the
\* probe of this account is newer than its storage; requests and inserts
\* outside the detector happen only inside such a pass, on the table of
\* that schema and account; the detector issues one probe per schema and
\* stores nothing.
C22_FetchOnlyWithNewData ==
  [][/\ (pc = "acct_loop" /\ pc' = "acct_pass") =>
          /\ schemas[psKey'[1]].hasNewData
          /\ psKey'[2] = curAuth
          /\ ProbeNewer(psKey')
     /\ FetchesOrStores =>
          /\ pc = "acct_pass"
          /\ psKey[2] = curAuth
          /\ schemas[psKey[1]].hasNewData
          /\ \A t \in DOMAIN db : t # psKey => db'[t] = db[t]
     /\ (pc = "acct_check" /\ pc' = "acct_check") =>
          /\ reqCount' = reqCount + 1
          /\ db' = db
          /\ insertCount' = insertCount]_vars

\* The second account is through its pass with one request, its probe, and
\* nothing stored, while the schema still carries the start the first
\* account's detector wrote and the first account has stored rows.
C22_Witness ==
  /\ pc = "mu_loop"
  /\ authIdx = 2
  /\ Len(schemas) = 1
  /\ ~schemas[1].hasNewData
  /\ schemas[1].start # Null
  /\ insertCount >= 1
  /\ Len(db[Table(1, 2)]) = 1

\* An iteration of the pass that got a response with a non-empty page.
ReceivesPage ==
  /\ psPc = "fetch"
  /\ psPc' # "thrown"
  /\ reqCount' = reqCount + 1
  /\ psResp'.res # NotArray
  /\ psResp'.res # <<>>

\* The date field of the last (oldest) record of the page just received.
LastDateReceived == psResp'.res[Len(psResp'.res)]

\* The pass stops on the page just received and persists none of it; what
\* it persisted before stays.
StopsUnpersisted ==
  /\ psPc' = "done"
  /\ db' = db
  /\ insertCount' = insertCount

\* C23: a page whose last record has no integer date stops the pass at
\* once, unpersisted, with the earlier pages kept and no further request; a
\* page whose last record has an integer date, the date 0 included, is not
\* taken as malformed: it goes to the insert.
C23_MalformedLastStops ==
  [][ReceivesPage =>
       /\ LastDateReceived = NoDate => StopsUnpersisted
       /\ LastDateReceived \in Dates => insertCount' = insertCount + 1]_vars

\* The same for integer dates from 1; this one holds.
MalformedLastStopsFromOne ==
  [][ReceivesPage =>
       /\ LastDateReceived = NoDate => StopsUnpersisted
       /\ LastDateReceived \in Dates \ {0} =>
            insertCount' = insertCount + 1]_vars

\* A pass that persisted a page and then stopped on a malformed one.
StoppedOnMalformedPage ==
  /\ psPc = "done"
  /\ psResp.res # NotArray
  /\ psResp.res # <<>>
  /\ psResp.res[Len(psResp.res)] = NoDate
  /\ insertCount = 1
  /\ db[psKey] # <<>>
  /\ psWrite = NoWrite

\* The configured symbols the detector of the configurable public schema
\* has been through.
SymbolsDetected == IF pc = "pub_conf" THEN 1..symIdx ELSE {}

\* The entries of the cursor list of the schema for a symbol.
EntriesOf(symbol) ==
  SelectSeq(schemas[1].starts, LAMBDA entry : entry.symbol = symbol)

\* The probe of the symbol's table is not empty and carries the symbol.
ProbeMatches(table) == gwMode = "remote" /\ ProbeOf(table) # Null

\* The detector's decision for a symbol with configured start, newest
\* stored date d (from lowest on) and the probe of its table.
SymbolDecidedAsStated(symbol, start, table, lowest) ==
  LET d == LastElemFromDb(table)
      entries == EntriesOf(symbol)
  IN  /\ ~ProbeMatches(table) => entries = <<>>
      /\ (ProbeMatches(table) /\ d = Null) =>
           /\ schemas[1].hasNewData
           /\ entries = <<StartConf(symbol, Null, Null, start)>>
      /\ (ProbeMatches(table) /\ d # Null /\ d >= lowest
            /\ ProbeOf(table) > d) =>
           /\ Len(entries) = 1
           /\ entries[1].currStart = d + 1

\* A fetch pass begins only for a symbol that has a cursor entry, which a
\* symbol whose probe did not match has not.
FetchOnlyWithEntry ==
  (pc = "pub_loop" /\ pc' = "pub_pass") =>
    /\ EntriesOf(psKey'[2]) # <<>>
    /\ ProbeMatches(psKey')

\* C24: per configured (symbol, start): an empty probe or one of another
\* symbol leaves no cursor entry and no fetch for the symbol; a matching
\* probe with no stored record sets hasNewData and creates the entry with
\* currStart = start; a matching probe newer than the newest stored date d
\* gives currStart = d + 1.
C24_ConfigurableDetection ==
  [][/\ \A k \in SymbolsDetected :
          SymbolDecidedAsStated(conf[k][1], conf[k][2],
                                Table(1, conf[k][1]), 0)
     /\ FetchOnlyWithEntry]_vars

\* The same for newest stored dates d >= 1; this one holds.
ConfigurableDetectionFromOne ==
  [][/\ \A k \in SymbolsDetected :
          SymbolDecidedAsStated(conf[k][1], conf[k][2],
                                Table(1, conf[k][1]), 1)
     /\ FetchOnlyWithEntry]_vars

\* The fetch passes an entry of the cursor list asks for.
HasGap(entry) == entry.baseStartFrom # Null /\ entry.baseStartTo # Null
HasForward(entry) == entry.currStart # Null
PassesOf(entry) ==
  (IF HasGap(entry) THEN 1 ELSE 0) + (IF HasForward(entry) THEN 1 ELSE 0)

RECURSIVE PassesBefore(_, _)
\* The fetch passes the first k - 1 entries of starts ask for.
PassesBefore(starts, k) ==
  IF k <= 1 THEN 0
  ELSE PassesBefore(starts, k - 1) + PassesOf(starts[k - 1])

\* The gap of a symbol with stored records and a matching probe, for
\* configured starts from lowest on: scheduled exactly when start is before
\* the oldest stored date e, then from start to e - 1 with hasNewData set.
GapAsStated(symbol, start, table, lowest) ==
  (ProbeMatches(table) /\ db[table] # <<>> /\ start >= lowest) =>
    LET e == FirstElemFromDb(table)
        entries == EntriesOf(symbol)
    IN  /\ Len(entries) = 1
        /\ HasGap(entries[1]) <=> start < e
        /\ start < e =>
             /\ entries[1].baseStartFrom = start
             /\ entries[1].baseStartTo = e - 1
             /\ schemas[1].hasNewData

\* The pass that begins is the one whose turn it is: the symbols in the
\* order of the cursor list, per symbol the gap pass, then the forward pass.
PassInTurn ==
  (pc = "pub_loop" /\ pc' = "pub_pass") =>
    \E k \in DOMAIN schemas[1].starts :
      LET entry == schemas[1].starts[k]
          before == PassesBefore(schemas[1].starts, k)
      IN  /\ psKey' = Table(1, entry.symbol)
          /\ \/ /\ HasGap(entry)
                /\ startIdx = before
                /\ psStart' = entry.baseStartFrom
                /\ psArgsEnd' = entry.baseStartTo
             \/ /\ HasForward(entry)
                /\ startIdx = before + (IF HasGap(entry) THEN 1 ELSE 0)
                /\ psStart' = entry.currStart
                /\ psArgsEnd' = Now

\* C25: for a configured symbol with stored records a gap is scheduled if
\* and only if its configured start is before the oldest stored date e,
\* then with baseStartFrom = start, baseStartTo = e - 1 and hasNewData set,
\* whether or not there is newer data; the gap pass of a symbol runs before
\* its forward pass and the symbols are taken one after another.
C25_GapScheduling ==
  [][/\ \A k \in SymbolsDetected :
          GapAsStated(conf[k][1], conf[k][2], Table(1, conf[k][1]), 0)
     /\ PassInTurn]_vars

\* The same for configured starts >= 1; this one holds.
GapSchedulingFromOne ==
  [][/\ \A k \in SymbolsDetected :
          GapAsStated(conf[k][1], conf[k][2], Table(1, conf[k][1]), 1)
     /\ PassInTurn]_vars

\* A forward pass begins after the gap pass of its symbol.
ForwardAfterGap ==
  /\ pc = "pub_pass"
  /\ startIdx >= 1
  /\ psArgsEnd = Now
  /\ HasGap(EntriesOf(psKey[2])[1])

\* A hook that was launched has not settled.
HookPending == \E h \in DOMAIN hookState : hookState[h] = "pending"

ProgressWithTotal(total) ==
  /\ (pc = "acct_pass" /\ pc' = "acct_loop") =>
       subProgress' = Round(subCount' * 100 * muCount, total * Len(auth))
  /\ (pc = "acct_loop" /\ pc' = "mu_loop" /\ Len(mcm) >= 1) =>
       muProgress' = Round(Len(mcm) * 100 * muCount, total * Len(auth))

\* C27: in the pass of account i of N the progress after the k-th schema
\* is round((k / T) * 100 * (i / N)) with T the number of schemas processed
\* for the account, so the pass returns round(100 * i / N), whatever other
\* schemas the map of the orchestrator holds.
C27_ProgressOverProcessed ==
  [][ProgressWithTotal(Len(mcm))]_vars

\* With T the size of the orchestrator's schema map the formula holds.
ProgressOverWholeMap ==
  [][ProgressWithTotal(Len(schemas))]_vars

\* C28: on an orchestrator that makes two public passes in a row the
\* cursor list of the configurable public schema is empty when the second
\* detection starts, and in each pass a configured symbol has at most one
\* entry, so at most one gap pass and one forward pass.
C28_CursorsNotCarriedOver ==
  /\ (runNo = 2 /\ pc = "pub_check" /\ chkIdx = 0) =>
       schemas[1].starts = <<>>
  /\ \A k \in DOMAIN conf : Len(EntriesOf(conf[k][1])) <= 1

\* In the first pass of an orchestrator a configured symbol has at most one
\* entry.
OneEntryInFirstPass ==
  runNo = 1 => \A k \in DOMAIN conf : Len(EntriesOf(conf[k][1])) <= 1

RECURSIVE TrailingRun(_, _)
\* The number of entries of kind at the end of log, in a row.
TrailingRun(log, kind) ==
  IF log = <<>> \/ log[Len(log)] # kind THEN 0
  ELSE 1 + TrailingRun(SubSeq(log, 1, Len(log) - 1), kind)

\* C29: a request is abandoned for rate limiting only after more than 2
\* rate-limited failures in a row, and for nonce-too-old only after more
\* than 20 nonce-too-old failures in a row, however the two kinds
\* interleave.
C29_ConsecutiveFailuresCounted ==
  /\ (rqPc = "thrown" /\ rqErr = "rate") =>
       TrailingRun(rqLog, "rate") > MaxRateLimitRetries
  /\ (rqPc = "thrown" /\ rqErr = "nonce") =>
       TrailingRun(rqLog, "nonce") > MaxNonceSmallRetries

\* The bounds count the failures of a kind since the entry of the request,
\* in a row or not; this one holds.
AllFailuresCounted ==
  /\ countRateLimitError = Times(rqLog, "rate")
  /\ countNonceSmallError = Times(rqLog, "nonce")
  /\ (rqPc = "thrown" /\ rqErr = "rate") =>
       Times(rqLog, "rate") = MaxRateLimitRetries + 1
  /\ (rqPc = "thrown" /\ rqErr = "nonce") =>
       Times(rqLog, "nonce") = MaxNonceSmallRetries + 1

\* A call is past its detector.
Filtered(a) == coPc[a] \in {"pass", "returned"}

\* C30: with two calls of insertNewDataToDb in progress on one
\* orchestrator, each call takes the schemas its own detector found new
\* data for, begins each fetch pass with the start its own detector
\* computed, and writes to the tables of its own credential.
C30_CallsIsolated ==
  \A a \in DOMAIN coPc :
    /\ Filtered(a) => coMcm[a] = filterMethodCollMap(coOwn[a], FALSE)
    /\ \A k \in DOMAIN coFetched[a] :
         LET f == coFetched[a][k]
         IN  /\ coOwn[a][f.schema].hasNewData
             /\ f.start = StartArg(coOwn[a][f.schema].start)
             /\ f.table = Table(f.schema, a)

\* The same while the other call has not been made or has returned before
\* this one was made; this one holds.
CallsIsolatedInSequence ==
  \A a \in DOMAIN coPc :
    (\A o \in DOMAIN coPc \ {a} : coPc[o] = "idle") =>
      /\ Filtered(a) => coMcm[a] = filterMethodCollMap(coOwn[a], FALSE)
      /\ \A k \in DOMAIN coFetched[a] :
           LET f == coFetched[a][k]
           IN  /\ coOwn[a][f.schema].hasNewData
               /\ f.start = StartArg(coOwn[a][f.schema].start)
               /\ f.table = Table(f.schema, a)

\* A gateway request of the pass is issued in this step.
IssuesRequest == psPc = "fetch" /\ reqCount' = reqCount + 1

\* The iteration before this step persisted a page.
PagePersisted == psWrite # NoWrite

MostAttempts == MaxRateLimitRetries + MaxNonceSmallRetries + 1

\* The request is over: _getDataFromApi has returned or thrown.
RequestEnded == rqPc \in {"returned", "thrown"}

\* C32: a logical request whose gateway calls all return or throw ends;
\* it makes at most 23 attempts, sees at most 3 rate-limited and at most 21
\* nonce-too-old failures, and ends with its first successful response or
\* by throwing the error of its last attempt.
C32_RetryLoopTerminates ==
  /\ [](hasMethod =>
          /\ Len(rqLog) <= MostAttempts
          /\ Times(rqLog, "rate") <= MaxRateLimitRetries + 1
          /\ Times(rqLog, "nonce") <= MaxNonceSmallRetries + 1
          /\ Times(rqLog, "ok") <= 1
          /\ rqPc = "returned" <=>
               (rqLog # <<>> /\ rqLog[Len(rqLog)] = "ok")
          /\ rqPc = "thrown" =>
               /\ rqLog # <<>>
               /\ rqLog[Len(rqLog)] = rqErr
               /\ rqErr # "ok")
  /\ <>RequestEnded

\* A request has returned on its 23rd attempt, after 2 rate-limited and
\* 20 nonce-too-old failures.
C32_Witness ==
  /\ rqPc = "returned"
  /\ Len(rqLog) = MostAttempts
  /\ Times(rqLog, "rate") = MaxRateLimitRetries
  /\ Times(rqLog, "nonce") = MaxNonceSmallRetries

====
